---- MODULE Spec2Model ----
(***************************************************************************)
(* Model of the fukinotou loaders: CsvLoader, JsonlLoader, ParquetLoader,  *)
(* JsonLoader, TextFileLoader and ImageFileLoader.  One load call is in    *)
(* flight at a time; its position in the code is pc.                       *)
(*                                                                         *)
(* Text is a sequence of one-character strings, so that str.strip() and    *)
(* integer parsing are computed.  A raw or validated value is a tagged     *)
(* record (StrV, IntV, NullV) so that values of different Python types    *)
(* can be compared.  Field names, header cells and keys are text too.      *)
(*                                                                         *)
(* A CSV file is the list of records csv.reader yields (one record per     *)
(* line), a JSONL file the list of its lines, a Parquet file the list of   *)
(* row dicts of df.to_dicts().  Schema validation (pydantic) is the        *)
(* operator Validate.  ParquetLoader raises LoadingException, the other    *)
(* loaders LoadingError; errors keep the type name the source raises.      *)
(***************************************************************************)
EXTENDS Integers, Sequences, FiniteSets, TLC

VARIABLES loader, pc, path, kind, schema, content, corrupt, handle,
          headers, pos, row_number, validated, rows, outcome, result, error,
          extensions, files, collection, include_path_as_column, table,
          frames, selves, lists

vars == <<loader, pc, path, kind, schema, content, corrupt, handle,
          headers, pos, row_number, validated, rows, outcome, result, error,
          extensions, files, collection, include_path_as_column, table,
          frames, selves, lists>>

\* The state of an export: the collection to_polars / to_pandas is called
\* on, its argument and the table it returns.
exportVars == <<collection, include_path_as_column, table>>

\* The state of two load calls in flight at once: the frame of each call
\* (its arguments and local variables), the loader objects, and the lists
\* the calls collect their rows in.
concurrentVars == <<frames, selves, lists>>

\* ---------------------------------------------------------------- bounds
\* Largest number of units (CSV records after the header, JSONL lines,
\* Parquet rows) in a file.
MaxRows == 3

\* ---------------------------------------------------------------- values
StrV(s) == [t |-> "str", s |-> s, n |-> 0]
IntV(n) == [t |-> "int", s |-> <<>>, n |-> n]
NullV == [t |-> "null", s |-> <<>>, n |-> 0]

IsSpace(c) == c = " "

RECURSIVE LStrip(_)
LStrip(s) ==
    IF s = <<>> THEN s
    ELSE IF IsSpace(Head(s)) THEN LStrip(Tail(s)) ELSE s

RECURSIVE RStrip(_)
RStrip(s) ==
    IF s = <<>> THEN s
    ELSE IF IsSpace(s[Len(s)]) THEN RStrip(SubSeq(s, 1, Len(s) - 1)) ELSE s

\* str.strip()
Strip(s) == RStrip(LStrip(s))

Digits == {"0", "1", "2", "3", "4", "5", "6", "7", "8", "9"}

DigitVal(c) ==
    CASE c = "0" -> 0 [] c = "1" -> 1 [] c = "2" -> 2 [] c = "3" -> 3
      [] c = "4" -> 4 [] c = "5" -> 5 [] c = "6" -> 6 [] c = "7" -> 7
      [] c = "8" -> 8 [] c = "9" -> 9

\* The text is a decimal integer literal (what an int field accepts).
IsIntText(s) == s # <<>> /\ \A i \in 1..Len(s) : s[i] \in Digits

RECURSIVE ParseInt(_)
ParseInt(s) ==
    IF s = <<>> THEN 0
    ELSE 10 * ParseInt(SubSeq(s, 1, Len(s) - 1)) + DigitVal(s[Len(s)])

\* ---------------------------------------------------------------- schema
\* The schema fields, in declaration order (name: str, age: int).
Name == <<"n", "a", "m", "e">>
Age == <<"a", "g", "e">>
Extra == <<"e", "x">>
Fields == <<Name, Age>>
FieldSet == {Fields[i] : i \in 1..Len(Fields)}
FieldType(f) == IF f = Age THEN "int" ELSE "str"
FieldDefault(f) == IF f = Age THEN IntV(0) ELSE StrV(<<>>)

\* A schema says which fields declare a default.
Schemas == [FieldSet -> BOOLEAN]

\* Coercion of one raw value into a field type.
Coerce(type, raw) ==
    IF type = "str"
    THEN IF raw.t = "str" THEN [ok |-> TRUE, v |-> raw]
         ELSE [ok |-> FALSE, v |-> NullV]
    ELSE IF raw.t = "int" THEN [ok |-> TRUE, v |-> raw]
         ELSE IF raw.t = "str" /\ IsIntText(raw.s)
              THEN [ok |-> TRUE, v |-> IntV(ParseInt(raw.s))]
              ELSE [ok |-> FALSE, v |-> NullV]

\* Variant: every field is required, a declared default is never used.
ValidateFieldRequired(sch, fmap, f) ==
    IF f \in DOMAIN fmap THEN Coerce(FieldType(f), fmap[f])
    ELSE [ok |-> FALSE, v |-> NullV]

\* One field of the record: present keys are coerced, absent keys take the
\* default when the schema declares one.
ValidateField(sch, fmap, f) ==
    IF f \in DOMAIN fmap THEN Coerce(FieldType(f), fmap[f])
    ELSE IF sch[f] THEN [ok |-> TRUE, v |-> FieldDefault(f)]
         ELSE [ok |-> FALSE, v |-> NullV]

\* Variant: the model forbids extra keys (extra="forbid").
ValidateForbidExtra(sch, fmap) ==
    LET bad == {f \in FieldSet : ~ValidateField(sch, fmap, f).ok}
                 \cup (DOMAIN fmap \ FieldSet)
    IN [ok |-> bad = {},
        bad |-> bad,
        value |-> [f \in FieldSet |-> ValidateField(sch, fmap, f).v]]

\* model(**row_dict) / model.model_validate(obj): keys that are not schema
\* fields are ignored; bad is the set of offending fields.
Validate(sch, fmap) ==
    LET bad == {f \in FieldSet : ~ValidateField(sch, fmap, f).ok}
    IN [ok |-> bad = {},
        bad |-> bad,
        value |-> [f \in FieldSet |-> ValidateField(sch, fmap, f).v]]

\* ---------------------------------------------------------------- errors
\* The row numbers a message carries: none, or one.
NoRow == {}
NoPath == ""
Err(type, msg, p, row, cause) ==
    [type |-> type, msg |-> msg, path |-> p, row |-> row, cause |-> cause]
NoError == Err("none", "", NoPath, NoRow, "none")
\* What "except LoadingError" catches.
IsLoadingErrorType(t) == t = "LoadingError"
NoResult == [path |-> NoPath, value |-> <<>>]
EmptyMap == [k \in {} |-> NullV]
\* No collection built, no table made yet.
NoCollection == [class |-> "none", path |-> NoPath, fields |-> <<>>, value |-> <<>>]
NoTable == [lib |-> "none", columns |-> <<>>, rows |-> <<>>]

\* ---------------------------------------------------------------- inputs
Paths == {"a", "b"}
Kinds == {"missing", "dir", "file"}
Loaders == {"csv", "jsonl", "parquet", "json", "text", "image"}
RowLoaders == {"csv", "jsonl", "parquet"}

SeqUpTo(S, n) == UNION {[1..k -> S] : k \in 0..n}

\* Records as csv.reader yields them: a list of cells, [] for an empty line.
CsvRowSet ==
    { <<>>,
      << <<>>, <<>>, <<"x">> >>,
      << <<" ">> >>,
      << <<"x">>, <<"7">> >>,
      << <<"7">>, <<"x">> >>,
      << <<"x">> >>,
      << <<"x">>, <<"7">>, <<"x">> >>,
      << <<>>, <<"7">> >> }

CsvHeaderSet ==
    { <<Name, Age>>, <<Age, Name>>, <<Name>>, <<Name, Age, Extra>>, <<Name, Name>>,
      <<>> }

\* A CSV file is the list of its records, the header first; <<>> has no line.
CsvFiles ==
    {<<>>} \cup {<<h>> \o r : h \in CsvHeaderSet, r \in SeqUpTo(CsvRowSet, MaxRows)}

\* A JSON text: nothing, malformed syntax, a non-object value or an object.
JsonObjSet ==
    { [k \in {Name, Age} |-> IF k = Name THEN StrV(<<"x">>) ELSE IntV(7)],
      [k \in {Name} |-> StrV(<<"x">>)],
      [k \in {Name, Age} |-> IF k = Name THEN StrV(<<"x">>) ELSE StrV(<<"x">>)],
      [k \in {Name, Age} |-> IF k = Name THEN NullV ELSE StrV(<<"7">>)],
      [k \in {Age, Extra} |-> IF k = Age THEN IntV(7) ELSE StrV(<<"x">>)] }
JsonTexts ==
    {[body |-> b, obj |-> EmptyMap] : b \in {"empty", "malformed", "scalar"}}
    \cup {[body |-> "object", obj |-> o] : o \in JsonObjSet}

\* A JSONL line: a JSON text padded with ws whitespace characters.
JsonlLineSet ==
    {[ws |-> 0, text |-> t] : t \in JsonTexts}
    \cup {[ws |-> 1, text |-> t] : t \in {u \in JsonTexts : u.body = "empty"}}
JsonlFiles == SeqUpTo(JsonlLineSet, MaxRows)

\* A Parquet table: every row has the same columns, cells may be null.
ParquetCells == {StrV(<<"x">>), IntV(7), NullV}
ParquetColSets == {{Name, Age}, {Name}, {Name, Extra}}
ParquetFiles == UNION {SeqUpTo([cols -> ParquetCells], MaxRows) : cols \in ParquetColSets}

JsonFiles == {<<t>> : t \in JsonTexts}
TextFiles == {<<StrV(<<>>)>>, <<StrV(<<"x">>)>>}
ImageFiles == {<<StrV(<<"x">>)>>}

FilesOf(l) ==
    CASE l = "csv" -> CsvFiles
      [] l = "jsonl" -> JsonlFiles
      [] l = "parquet" -> ParquetFiles
      [] l = "json" -> JsonFiles
      [] l = "text" -> TextFiles
      [] l = "image" -> ImageFiles

\* ---------------------------------------------------------------- path checks
Exists(k) == k # "missing"
IsFile(k) == k = "file"

\* Variant: only exists() is tested.
CsvResolveFileExistsOnly(p, k) ==
    IF ~Exists(k) THEN Err("LoadingError", "File not found", p, NoRow, "none")
    ELSE NoError

\* CsvLoader.load / JsonlLoader.load: exists(), then is_file().
CsvResolveFile(p, k) ==
    IF ~Exists(k) THEN Err("LoadingError", "File not found", p, NoRow, "none")
    ELSE IF ~IsFile(k)
         THEN Err("LoadingError", "Input path is a directory", p, NoRow, "none")
         ELSE NoError

JsonlResolveFile(p, k) ==
    IF ~Exists(k) THEN Err("LoadingError", "File not found", p, NoRow, "none")
    ELSE IF ~IsFile(k)
         THEN Err("LoadingError", "Input path is a directory", p, NoRow, "none")
         ELSE NoError

\* JsonLoader.load: the directory case raises a ValueError.
JsonResolveFile(p, k) ==
    IF ~Exists(k) THEN Err("LoadingError", "File not found", p, NoRow, "none")
    ELSE IF ~IsFile(k)
         THEN Err("ValueError", "Input path is directory path", p, NoRow, "none")
         ELSE NoError

\* ParquetLoader.load: one is_file() test, one message.
ParquetResolveFile(p, k) ==
    IF ~IsFile(k)
    THEN Err("LoadingException", "Input path is invalid", p, NoRow, "none")
    ELSE NoError

\* TextFileLoader.__init__ / ImageFileLoader.__init__.
FileLoaderResolveFile(p, k) ==
    IF ~Exists(k) THEN Err("FileNotFoundError", "File not found", p, NoRow, "none")
    ELSE IF ~IsFile(k)
         THEN Err("ValueError", "Input path is directory path", p, NoRow, "none")
         ELSE NoError

ResolveFile(l, p, k) ==
    CASE l = "csv" -> CsvResolveFile(p, k)
      [] l = "jsonl" -> JsonlResolveFile(p, k)
      [] l = "json" -> JsonResolveFile(p, k)
      [] l = "parquet" -> ParquetResolveFile(p, k)
      [] OTHER -> FileLoaderResolveFile(p, k)

\* ---------------------------------------------------------------- row loop
\* enumerate(reader, start=2) and enumerate(f, start=1).
CsvStart == 2
JsonlStart == 1

\* Variant: the counter advances only on units that are not skipped.
AdvanceOnKept(n, skipped) == IF skipped THEN n ELSE n + 1

\* enumerate advances on every unit the stream yields, skipped or not.
Advance(n, skipped) == n + 1

\* The text stream decodes as it is read: a file whose bytes stop being valid
\* in the chosen encoding after its first n units fails on the read that
\* follows them, where a sound file would report its end.
ReadFailsAt(file, n, cr) == cr /\ n >= Len(file)

\* Variant: next(reader, []) - an exhausted reader yields an empty record.
NextRecordDefault(file, n) ==
    [stop |-> FALSE, rec |-> IF n < Len(file) THEN file[n + 1] ELSE <<>>]

\* Variant: the reader stops one record early.
NextRecordEarlyStop(file, n) ==
    IF n + 1 < Len(file) THEN [stop |-> FALSE, rec |-> file[n + 1]]
    ELSE [stop |-> TRUE, rec |-> <<>>]

\* next(reader) after n records were read: the next record, or StopIteration.
NextRecord(file, n) ==
    IF n < Len(file) THEN [stop |-> FALSE, rec |-> file[n + 1]]
    ELSE [stop |-> TRUE, rec |-> <<>>]

\* Variant: the cells are tested without strip().
CsvIsBlankNoStrip(row_data) ==
    ~ \E i \in 1..Len(row_data) : row_data[i] # <<>>

\* not any(cell.strip() for cell in row_data)
CsvIsBlank(row_data) ==
    ~ \E i \in 1..Len(row_data) : Strip(row_data[i]) # <<>>

\* for i, header in enumerate(headers): if i < len(row_data): row_dict[header] = row_data[i]
RECURSIVE CsvRowDictUpTo(_, _, _)
CsvRowDictUpTo(hs, row_data, n) ==
    IF n = 0 THEN EmptyMap
    ELSE LET acc == CsvRowDictUpTo(hs, row_data, n - 1)
         IN IF n <= Len(row_data)
            THEN [k \in DOMAIN acc \cup {hs[n]} |->
                     IF k = hs[n] THEN StrV(row_data[n]) ELSE acc[k]]
            ELSE acc

\* Variant: a header column the row does not reach gets the empty string, as
\* csv.DictReader(restval="") would give it.
CsvRowDictPadded(hs, row_data) ==
    [k \in {hs[i] : i \in 1..Len(hs)} |->
        IF k \in DOMAIN CsvRowDictUpTo(hs, row_data, Len(hs))
        THEN CsvRowDictUpTo(hs, row_data, Len(hs))[k]
        ELSE StrV(<<>>)]

CsvRowDict(hs, row_data) == CsvRowDictUpTo(hs, row_data, Len(hs))

\* raw = line.strip(); "if not raw" skips the line.
JsonlStrip(line) == line.text
JsonlIsBlank(line) == JsonlStrip(line).body = "empty"

\* json.loads / json.load raise JSONDecodeError.
JsonMalformed(text) == text.body \in {"empty", "malformed"}

\* model_validate of a parsed JSON value: a non-object never validates.
JsonValidate(sch, text) ==
    IF text.body = "object" THEN Validate(sch, text.obj)
    ELSE [ok |-> FALSE, bad |-> {}, value |-> [f \in FieldSet |-> NullV]]

\* Variant: the row is validated as read, null cells included.
ParquetNotCleaned(row_dict) == row_dict

\* {k: v for k, v in row_dict.items() if v is not None}
ParquetCleaned(row_dict) ==
    [k \in {c \in DOMAIN row_dict : row_dict[c] # NullV} |-> row_dict[k]]

\* Variant: the CSV except clause skips the row (continue).
OnInvalidCsvSkips(l) == IF l = "csv" THEN "skip" ELSE "raise"

\* What the except clause around the validation does: every loader raises.
OnInvalid(l) == "raise"

\* ---------------------------------------------------------------- state
Init ==
    /\ loader = "none"
    /\ pc = "idle"
    /\ path = NoPath
    /\ kind = "missing"
    /\ schema = [f \in FieldSet |-> TRUE]
    /\ content = <<>>
    /\ corrupt = FALSE
    /\ handle = "none"
    /\ headers = <<>>
    /\ pos = 0
    /\ row_number = 0
    /\ validated = <<>>
    /\ rows = <<>>
    /\ outcome = "none"
    /\ result = NoResult
    /\ error = NoError
    /\ extensions = <<>>
    /\ files = <<>>
    /\ collection = NoCollection
    /\ include_path_as_column = FALSE
    /\ table = NoTable
    /\ frames = <<>>
    /\ selves = <<>>
    /\ lists = <<>>

\* A caller starts loader l on path p; k, c and cr are what the file system
\* holds there, sch is the model class given to the loader.
Call(l, p, k, sch, c, cr) ==
    /\ pc = "idle"
    /\ loader' = l
    /\ path' = p
    /\ kind' = k
    /\ schema' = sch
    /\ content' = c
    /\ corrupt' = cr
    /\ pc' = IF l \in {"text", "image"} THEN "init" ELSE "check"
    /\ UNCHANGED <<handle, headers, pos, row_number, validated, rows,
                   outcome, result, error>>
    /\ UNCHANGED <<extensions, files>>
    /\ UNCHANGED exportVars
    /\ UNCHANGED concurrentVars

\* raise e: the call ends without a result; h is the handle's state after
\* the exception has left the function.
Raise(e, h) ==
    /\ pc' = "done"
    /\ outcome' = "raised"
    /\ error' = e
    /\ result' = NoResult
    /\ handle' = h

\* The exists()/is_file() tests at the top of load.
PathCheck ==
    /\ pc = "check"
    /\ LET e == ResolveFile(loader, path, kind)
       IN IF e # NoError
          THEN Raise(e, handle)
          ELSE /\ pc' = CASE loader = "csv" -> "header"
                          [] loader = "jsonl" -> "open"
                          [] loader = "parquet" -> "read"
                          [] OTHER -> "document"
               /\ UNCHANGED <<handle, outcome, result, error>>
    /\ UNCHANGED <<loader, path, kind, schema, content, corrupt, headers, pos,
                   row_number, validated, rows>>
    /\ UNCHANGED <<extensions, files>>
    /\ UNCHANGED exportVars
    /\ UNCHANGED concurrentVars

\* with p.open(...) as f: reader = csv.reader(f); headers = next(reader)
CsvReadHeader ==
    /\ pc = "header"
    /\ ~ReadFailsAt(content, pos, corrupt)
    /\ IF NextRecord(content, pos).stop
       THEN /\ Raise(Err("LoadingError", "No headers found in", path, NoRow, "none"),
                     "closed")
            /\ UNCHANGED <<headers, pos, row_number>>
       ELSE /\ headers' = NextRecord(content, pos).rec
            /\ pos' = pos + 1
            /\ row_number' = CsvStart - 1
            /\ handle' = "open"
            /\ pc' = "rows"
            /\ UNCHANGED <<outcome, result, error>>
    /\ UNCHANGED <<loader, path, kind, schema, content, corrupt, validated, rows>>
    /\ UNCHANGED <<extensions, files>>
    /\ UNCHANGED exportVars
    /\ UNCHANGED concurrentVars

\* One iteration of "for row_number, row_data in enumerate(reader, start=2)".
CsvRowStep ==
    /\ pc = "rows"
    /\ loader = "csv"
    /\ pos < Len(content)
    /\ LET row_data == content[pos + 1]
           blank == CsvIsBlank(row_data)
           n == Advance(row_number, blank)
           v == Validate(schema, CsvRowDict(headers, row_data))
       IN /\ pos' = pos + 1
          /\ row_number' = n
          /\ IF blank
             THEN UNCHANGED <<pc, validated, rows, outcome, result, error, handle>>
             ELSE /\ validated' = Append(validated, pos + 1)
                  /\ IF v.ok
                     THEN /\ rows' = Append(rows, [path |-> path, value |-> v.value])
                          /\ UNCHANGED <<pc, outcome, result, error, handle>>
                     ELSE IF OnInvalid(loader) = "raise"
                          THEN /\ Raise(Err("LoadingError", "Error parsing row",
                                            path, {n}, "ValidationError"), "closed")
                               /\ UNCHANGED rows
                          ELSE UNCHANGED <<pc, rows, outcome, result, error, handle>>
    /\ UNCHANGED <<loader, path, kind, schema, content, corrupt, headers>>
    /\ UNCHANGED <<extensions, files>>
    /\ UNCHANGED exportVars
    /\ UNCHANGED concurrentVars

\* Variant: the JSONL loader demands a first line, as the CSV loader does.
JsonlOpenNeedsHeader ==
    /\ pc = "open"
    /\ IF content = <<>>
       THEN /\ Raise(Err("LoadingError", "No headers found in", path, NoRow, "none"),
                     "open")
            /\ UNCHANGED <<pos, row_number>>
       ELSE /\ handle' = "open"
            /\ pos' = 0
            /\ row_number' = JsonlStart - 1
            /\ pc' = "rows"
            /\ UNCHANGED <<outcome, result, error>>
    /\ UNCHANGED <<loader, path, kind, schema, content, corrupt, headers,
                   validated, rows>>
    /\ UNCHANGED <<extensions, files>>
    /\ UNCHANGED exportVars
    /\ UNCHANGED concurrentVars

\* f = p.open(mode="r", encoding=encoding); the handle is never closed by
\* the function.
JsonlOpen ==
    /\ pc = "open"
    /\ handle' = "open"
    /\ pos' = 0
    /\ row_number' = JsonlStart - 1
    /\ pc' = "rows"
    /\ UNCHANGED <<loader, path, kind, schema, content, corrupt, headers,
                   validated, rows, outcome, result, error>>
    /\ UNCHANGED <<extensions, files>>
    /\ UNCHANGED exportVars
    /\ UNCHANGED concurrentVars

\* One iteration of "for lineno, line in enumerate(f, start=1)".
JsonlRowStep ==
    /\ pc = "rows"
    /\ loader = "jsonl"
    /\ pos < Len(content)
    /\ LET line == content[pos + 1]
           raw == JsonlStrip(line)
           blank == JsonlIsBlank(line)
           n == Advance(row_number, blank)
           v == JsonValidate(schema, raw)
       IN /\ pos' = pos + 1
          /\ row_number' = n
          /\ IF blank
             THEN UNCHANGED <<pc, validated, rows, outcome, result, error, handle>>
             ELSE IF JsonMalformed(raw)
             THEN /\ Raise(Err("LoadingError", "Error parsing JSON on line",
                               path, {n}, "JSONDecodeError"), handle)
                  /\ UNCHANGED <<validated, rows>>
             ELSE /\ validated' = Append(validated, pos + 1)
                  /\ IF v.ok
                     THEN /\ rows' = Append(rows, [path |-> path, value |-> v.value])
                          /\ UNCHANGED <<pc, outcome, result, error, handle>>
                     ELSE IF OnInvalid(loader) = "raise"
                          THEN /\ Raise(Err("LoadingError", "Error validating row",
                                            path, {n}, "ValidationError"), handle)
                               /\ UNCHANGED rows
                          ELSE UNCHANGED <<pc, rows, outcome, result, error, handle>>
    /\ UNCHANGED <<loader, path, kind, schema, content, corrupt, headers>>
    /\ UNCHANGED <<extensions, files>>
    /\ UNCHANGED exportVars
    /\ UNCHANGED concurrentVars

\* df = pl.read_parquet(p), any exception wrapped.
ParquetRead ==
    /\ pc = "read"
    /\ IF corrupt
       THEN Raise(Err("LoadingException", "Error reading Parquet file", path,
                      NoRow, "Exception"), handle)
       ELSE /\ pc' = "rows"
            /\ UNCHANGED <<handle, outcome, result, error>>
    /\ UNCHANGED <<loader, path, kind, schema, content, corrupt, headers, pos,
                   row_number, validated, rows>>
    /\ UNCHANGED <<extensions, files>>
    /\ UNCHANGED exportVars
    /\ UNCHANGED concurrentVars

\* One iteration of "for row_dict in df.to_dicts()"; the message of a
\* validation failure carries the path and no row number.
ParquetRowStep ==
    /\ pc = "rows"
    /\ loader = "parquet"
    /\ pos < Len(content)
    /\ LET row_dict == content[pos + 1]
           v == Validate(schema, ParquetCleaned(row_dict))
       IN /\ pos' = pos + 1
          /\ validated' = Append(validated, pos + 1)
          /\ IF v.ok
             THEN /\ rows' = Append(rows, [path |-> path, value |-> v.value])
                  /\ UNCHANGED <<pc, outcome, result, error, handle>>
             ELSE IF OnInvalid(loader) = "raise"
                  THEN /\ Raise(Err("LoadingException", "Error validating row in",
                                    path, NoRow, "ValidationError"), handle)
                       /\ UNCHANGED rows
                  ELSE UNCHANGED <<pc, rows, outcome, result, error, handle>>
    /\ UNCHANGED <<loader, path, kind, schema, content, corrupt, headers, row_number>>
    /\ UNCHANGED <<extensions, files>>
    /\ UNCHANGED exportVars
    /\ UNCHANGED concurrentVars

\* The stream is exhausted: return XxxLoadResult(path=p, value=rows).
Return ==
    /\ pc = "rows"
    /\ pos >= Len(content)
    /\ ~ReadFailsAt(content, pos, corrupt)
    /\ pc' = "done"
    /\ outcome' = "returned"
    /\ result' = [path |-> path, value |-> rows]
    /\ handle' = IF loader = "csv" THEN "closed" ELSE handle
    /\ UNCHANGED <<loader, path, kind, schema, content, corrupt, headers, pos,
                   row_number, validated, rows, error>>
    /\ UNCHANGED <<extensions, files>>
    /\ UNCHANGED exportVars
    /\ UNCHANGED concurrentVars

\* JsonLoader.load after the path check: open, json.load, model_validate.
JsonDocumentRead ==
    /\ pc = "document"
    /\ ~corrupt
    /\ LET raw == content[1]
           v == JsonValidate(schema, raw)
       IN IF JsonMalformed(raw)
          THEN /\ Raise(Err("LoadingError", "Error parsing JSON file", path,
                            NoRow, "JSONDecodeError"), "open")
               /\ UNCHANGED validated
          ELSE /\ validated' = Append(validated, 1)
               /\ IF v.ok
                  THEN /\ pc' = "done"
                       /\ outcome' = "returned"
                       /\ result' = [path |-> path, value |-> v.value]
                       /\ handle' = "open"
                       /\ UNCHANGED error
                  ELSE Raise(Err("LoadingError", "Error validating JSON file",
                                 path, NoRow, "ValidationError"), "open")
    /\ UNCHANGED <<loader, path, kind, schema, content, corrupt, headers, pos,
                   row_number, rows>>
    /\ UNCHANGED <<extensions, files>>
    /\ UNCHANGED exportVars
    /\ UNCHANGED concurrentVars

\* TextFileLoader.__init__ / ImageFileLoader.__init__.
FileLoaderInit ==
    /\ pc = "init"
    /\ loader \in {"text", "image"}
    /\ LET e == ResolveFile(loader, path, kind)
       IN IF e # NoError
          THEN Raise(e, handle)
          ELSE /\ pc' = "load"
               /\ UNCHANGED <<handle, outcome, result, error>>
    /\ UNCHANGED <<loader, path, kind, schema, content, corrupt, headers, pos,
                   row_number, validated, rows>>
    /\ UNCHANGED <<extensions, files>>
    /\ UNCHANGED exportVars
    /\ UNCHANGED concurrentVars

\* TextFileLoader.load / ImageFileLoader.load: open and read inside a with
\* block; load tests nothing itself, open() raises when the file is gone.
FileLoaderLoad ==
    /\ pc = "load"
    /\ IF ~Exists(kind)
       THEN Raise(Err("FileNotFoundError", "No such file or directory", path, NoRow,
                      "none"), "none")
       ELSE /\ pc' = "done"
            /\ outcome' = "returned"
            /\ result' = [path |-> path, value |-> content[1]]
            /\ handle' = "closed"
            /\ UNCHANGED error
    /\ UNCHANGED <<loader, path, kind, schema, content, corrupt, headers, pos,
                   row_number, validated, rows>>
    /\ UNCHANGED <<extensions, files>>
    /\ UNCHANGED exportVars
    /\ UNCHANGED concurrentVars

\* The read that reaches the undecodable bytes raises UnicodeDecodeError from
\* next(reader) / the for loop (CSV), the iteration over f (JSONL) or
\* json.load (JSON).  None of the except clauses around these names it, so
\* it leaves load as it is; the CSV with block closes the handle on the way.
ReadFails ==
    /\ \/ pc = "header"
       \/ pc = "rows" /\ loader \in {"csv", "jsonl"}
       \/ pc = "document"
    /\ IF pc = "document" THEN corrupt ELSE ReadFailsAt(content, pos, corrupt)
    /\ Raise(Err("UnicodeDecodeError", "codec can't decode", NoPath, NoRow, "none"),
             IF loader = "csv" THEN "closed" ELSE "open")
    /\ UNCHANGED <<loader, path, kind, schema, content, corrupt, headers, pos,
                   row_number, validated, rows>>
    /\ UNCHANGED <<extensions, files>>
    /\ UNCHANGED exportVars
    /\ UNCHANGED concurrentVars

\* JsonLoader.load and JsonlLoader.load bind the open file to the local f
\* and never close it: the handle stays open until the runtime finalizes the
\* unreferenced file object, some time after load has returned or raised.
FinalizeHandle ==
    /\ pc = "done"
    /\ loader \in {"json", "jsonl"}
    /\ handle = "open"
    /\ handle' = "closed"
    /\ UNCHANGED <<loader, pc, path, kind, schema, content, corrupt, headers, pos,
                   row_number, validated, rows, outcome, result, error>>
    /\ UNCHANGED <<extensions, files>>
    /\ UNCHANGED exportVars
    /\ UNCHANGED concurrentVars

\* The caller has the outcome; the next call starts from scratch.
Reset ==
    /\ pc = "done"
    /\ loader' = "none"
    /\ pc' = "idle"
    /\ path' = NoPath
    /\ kind' = "missing"
    /\ schema' = [f \in FieldSet |-> TRUE]
    /\ content' = <<>>
    /\ corrupt' = FALSE
    /\ handle' = "none"
    /\ headers' = <<>>
    /\ pos' = 0
    /\ row_number' = 0
    /\ validated' = <<>>
    /\ rows' = <<>>
    /\ outcome' = "none"
    /\ result' = NoResult
    /\ error' = NoError
    /\ extensions' = <<>>
    /\ files' = <<>>
    /\ UNCHANGED exportVars
    /\ UNCHANGED concurrentVars

\* Which files of the input sets also come in a variant that cannot be read
\* to its end: any text file, and the Parquet file that holds no table.
Corruptible(l, c) ==
    \/ l \in {"csv", "jsonl", "json"}
    \/ l = "parquet" /\ c = <<>>

CallAny ==
    /\ pc = "idle"
    /\ \E l \in Loaders, p \in Paths, k \in Kinds :
        \E sch \in (IF l \in {"text", "image"} THEN {[f \in FieldSet |-> TRUE]} ELSE Schemas) :
            \E c \in (IF k = "file" THEN FilesOf(l) ELSE {<<>>}) :
                \E cr \in (IF k = "file" /\ Corruptible(l, c)
                            THEN BOOLEAN ELSE {FALSE}) :
                    Call(l, p, k, sch, c, cr)

Next ==
    \/ CallAny
    \/ PathCheck
    \/ CsvReadHeader
    \/ CsvRowStep
    \/ JsonlOpen
    \/ JsonlRowStep
    \/ ParquetRead
    \/ ParquetRowStep
    \/ Return
    \/ JsonDocumentRead
    \/ FileLoaderInit
    \/ FileLoaderLoad
    \/ ReadFails
    \/ FinalizeHandle
    \/ Reset

Spec == Init /\ [][Next]_vars

\* The steps of a call once it has started.  load is synchronous: nothing
\* suspends it, so a step that can be taken is taken.
LoadStep ==
    \/ PathCheck
    \/ CsvReadHeader
    \/ CsvRowStep
    \/ JsonlOpen
    \/ JsonlRowStep
    \/ ParquetRead
    \/ ParquetRowStep
    \/ Return
    \/ JsonDocumentRead
    \/ FileLoaderInit
    \/ FileLoaderLoad
    \/ ReadFails

\* Every step of a call changes its phase or its position in the file.
progress == <<pc, pos>>

\* The runs in which every started call is carried on: the loader object is
\* built first (its class is fixed for the run), load() is then called on
\* files of at most MaxFairLen units, and the interpreter keeps executing a
\* call that can take a step.
MaxFairLen == 2
InitFair ==
    /\ loader \in Loaders
    /\ pc = "idle"
    /\ path = NoPath
    /\ kind = "missing"
    /\ schema = [f \in FieldSet |-> TRUE]
    /\ content = <<>>
    /\ corrupt = FALSE
    /\ handle = "none"
    /\ headers = <<>>
    /\ pos = 0
    /\ row_number = 0
    /\ validated = <<>>
    /\ rows = <<>>
    /\ outcome = "none"
    /\ result = NoResult
    /\ error = NoError
    /\ extensions = <<>>
    /\ files = <<>>
    /\ collection = NoCollection
    /\ include_path_as_column = FALSE
    /\ table = NoTable
    /\ frames = <<>>
    /\ selves = <<>>
    /\ lists = <<>>

CallFair ==
    /\ pc = "idle"
    /\ \E p \in Paths, k \in Kinds :
        \E sch \in (IF loader \in {"text", "image"} THEN {[f \in FieldSet |-> TRUE]} ELSE Schemas) :
            \E c \in (IF k = "file" THEN {f \in FilesOf(loader) : Len(f) <= MaxFairLen}
                                    ELSE {<<>>}) :
                \E cr \in (IF k = "file" /\ Corruptible(loader, c)
                            THEN BOOLEAN ELSE {FALSE}) :
                    Call(loader, p, k, sch, c, cr)

\* The caller has the outcome and keeps the loader object for the next call.
ResetFair ==
    /\ pc = "done"
    /\ pc' = "idle"
    /\ path' = NoPath
    /\ kind' = "missing"
    /\ schema' = [f \in FieldSet |-> TRUE]
    /\ content' = <<>>
    /\ corrupt' = FALSE
    /\ handle' = "none"
    /\ headers' = <<>>
    /\ pos' = 0
    /\ row_number' = 0
    /\ validated' = <<>>
    /\ rows' = <<>>
    /\ outcome' = "none"
    /\ result' = NoResult
    /\ error' = NoError
    /\ UNCHANGED <<loader, extensions, files>>
    /\ UNCHANGED exportVars
    /\ UNCHANGED concurrentVars

NextFair ==
    \/ CallFair
    \/ PathCheck
    \/ CsvReadHeader
    \/ CsvRowStep
    \/ JsonlOpen
    \/ JsonlRowStep
    \/ ParquetRead
    \/ ParquetRowStep
    \/ Return
    \/ JsonDocumentRead
    \/ FileLoaderInit
    \/ FileLoaderLoad
    \/ ReadFails
    \/ FinalizeHandle
    \/ ResetFair

SpecFair == InitFair /\ [][NextFair]_vars /\ WF_progress(LoadStep)

\* ---------------------------------------------------------------- directories
\* Largest number of entries of a directory, of extensions in one request.
MaxEntries == 3
MaxExtensions == 2

\* Suffixes and extensions are texts; str.lower() maps them letter by letter.
DotJson == <<".", "j", "s", "o", "n">>
DotTxt == <<".", "t", "x", "t">>
LowerChar(ch) ==
    CASE ch = "J" -> "j" [] ch = "S" -> "s" [] ch = "O" -> "o" [] ch = "N" -> "n"
      [] ch = "T" -> "t" [] ch = "X" -> "x" [] OTHER -> ch
Lower(s) == [i \in 1..Len(s) |-> LowerChar(s[i])]

\* An entry of a directory: a regular file with its suffix and what it
\* holds, or a subdirectory with the files in it; created tells an entry
\* that appeared after a loader had listed the directory.
FileEntry(sfx, text, cr) ==
    [kind |-> "file", suffix |-> sfx, text |-> text, corrupt |-> cr, sub |-> <<>>,
     created |-> FALSE]
DirEntry(sub) ==
    [kind |-> "dir", suffix |-> <<>>, text |-> [body |-> "empty", obj |-> EmptyMap],
     corrupt |-> FALSE, sub |-> sub, created |-> FALSE]

FullDoc ==
    [body |-> "object",
     obj |-> [k \in {Name, Age} |-> IF k = Name THEN StrV(<<"x">>) ELSE IntV(7)]]
NameOnlyDoc == [body |-> "object", obj |-> [k \in {Name} |-> StrV(<<"x">>)]]
MalformedDoc == [body |-> "malformed", obj |-> EmptyMap]

DirEntrySet ==
    { FileEntry(DotJson, FullDoc, FALSE),
      FileEntry(DotJson, MalformedDoc, FALSE),
      FileEntry(DotJson, NameOnlyDoc, FALSE),
      FileEntry(<<".", "J", "S", "O", "N">>, FullDoc, FALSE),
      FileEntry(DotTxt, FullDoc, FALSE),
      FileEntry(DotTxt, FullDoc, TRUE),
      FileEntry(DotJson, FullDoc, TRUE),
      DirEntry(<<FileEntry(DotJson, FullDoc, FALSE), FileEntry(DotTxt, FullDoc, FALSE)>>) }

\* What is left of an entry once its file has been deleted: the name no
\* longer leads to a file.
Gone(e) == [e EXCEPT !.kind = "gone"]
Created(e) == [e EXCEPT !.created = TRUE]

\* A directory is the list of its entries in the order iterdir() yields them.
Directories == SeqUpTo(DirEntrySet, MaxEntries)

\* The ways a caller writes an extension.
ExtensionSet ==
    { DotJson, <<"j", "s", "o", "n">>, <<".", "J", "S", "O", "N">>,
      <<"J", "s", "o", "n">>, DotTxt, <<"t", "x", "t">>, <<".", "T", "X", "T">> }

\* A Path found by a search: the path the search was given, the names that
\* lead from it to the file (none: the path itself; one: a child; two: a
\* file of a subdirectory), and the suffix of the last name.
SelfPath(p) == [parent |-> p, name |-> <<>>, suffix |-> <<>>]
ChildPath(p, i, e) == [parent |-> p, name |-> <<i>>, suffix |-> e.suffix]
GrandChildPath(p, i, j, e) == [parent |-> p, name |-> <<i, j>>, suffix |-> e.suffix]
PathSuffix(fp) == fp.suffix

\* The entry of directory c that a found path names.
EntryAt(c, fp) ==
    IF Len(fp.name) = 1 THEN c[fp.name[1]] ELSE c[fp.name[1]].sub[fp.name[2]]

\* Variant: a regular file is listed like a directory without children.
SearchFilePathsNoFileCase(p, k, c) ==
    IF ~Exists(k) THEN <<>>
    ELSE LET children == [i \in 1..Len(c) |-> i]
             kept == SelectSeq(children, LAMBDA i : c[i].kind = "file")
         IN [j \in 1..Len(kept) |-> ChildPath(p, kept[j], c[kept[j]])]

\* Variant: the search descends into the subdirectories.
RECURSIVE SearchFilePathsRecursive(_, _, _)
SearchFilePathsRecursive(p, k, c) ==
    IF ~Exists(k) THEN <<>>
    ELSE IF IsFile(k) THEN <<SelfPath(p)>>
    ELSE IF c = <<>> THEN <<>>
    ELSE LET i == Len(c)
             before == SearchFilePathsRecursive(p, k, SubSeq(c, 1, i - 1))
         IN IF c[i].kind = "file" THEN Append(before, ChildPath(p, i, c[i]))
            ELSE before \o [j \in 1..Len(c[i].sub) |->
                                GrandChildPath(p, i, j, c[i].sub[j])]

\* PathSearcher.search_file_paths_from_directory_path: [] for a missing
\* path, [path] for a file, else the children for which is_file() holds.
SearchFilePaths(p, k, c) ==
    IF ~Exists(k) THEN <<>>
    ELSE IF IsFile(k) THEN <<SelfPath(p)>>
    ELSE LET children == [i \in 1..Len(c) |-> i]
             kept == SelectSeq(children, LAMBDA i : c[i].kind = "file")
         IN [j \in 1..Len(kept) |-> ChildPath(p, kept[j], c[kept[j]])]

\* if extension and not extension.startswith("."): extension = f".{extension}"
NormalizeExtension(e) == IF e # <<>> /\ e[1] # "." THEN <<".">> \o e ELSE e

\* Variant: the suffix is compared as it is spelled.
SuffixMatchesExactCase(fp, e) == PathSuffix(fp) = NormalizeExtension(e)

\* file.suffix.lower() == extension.lower()
SuffixMatches(fp, e) == Lower(PathSuffix(fp)) = Lower(NormalizeExtension(e))

\* Variant: every file found is returned, whatever its suffix.
SearchSpecificExtensionUnfiltered(p, k, c, e) == SearchFilePaths(p, k, c)

\* PathSearcher.search_specific_extension_paths_from_directory_path
SearchSpecificExtension(p, k, c, e) ==
    SelectSeq(SearchFilePaths(p, k, c), LAMBDA fp : SuffixMatches(fp, e))

\* PathSearcher.search_specific_extensions_paths_from_directory_path
SearchSpecificExtensions(p, k, c, es) ==
    SelectSeq(SearchFilePaths(p, k, c),
              LAMBDA fp : \E i \in 1..Len(es) : SuffixMatches(fp, es[i]))

\* JsonsLoader.load / TextFilesLoader.__init__: exists(), then is_dir().
JsonsResolveDirectory(p, k) ==
    IF ~Exists(k) THEN Err("LoadingError", "Directory not found", p, NoRow, "none")
    ELSE IF k # "dir"
         THEN Err("LoadingError", "Input path is not directory", p, NoRow, "none")
         ELSE NoError

FilesLoaderResolveDirectory(p, k) ==
    IF ~Exists(k) THEN Err("FileNotFoundError", "File not found", p, NoRow, "none")
    ELSE IF k # "dir"
         THEN Err("ValueError", "Input path is file path", p, NoRow, "none")
         ELSE NoError

\* JsonLoader.load on one file of the directory: what it returns or raises.
JsonLoad(sch, fp, e) ==
    IF e.corrupt
    THEN [ok |-> FALSE, value |-> NoResult,
          error |-> Err("UnicodeDecodeError", "codec can't decode", NoPath, NoRow, "none")]
    ELSE IF JsonMalformed(e.text)
    THEN [ok |-> FALSE, value |-> NoResult,
          error |-> Err("LoadingError", "Error parsing JSON file", fp, NoRow,
                        "JSONDecodeError")]
    ELSE IF JsonValidate(sch, e.text).ok
    THEN [ok |-> TRUE, value |-> [path |-> fp, value |-> JsonValidate(sch, e.text).value],
          error |-> NoError]
    ELSE [ok |-> FALSE, value |-> NoResult,
          error |-> Err("LoadingError", "Error validating JSON file", fp, NoRow,
                        "ValidationError")]

\* TextFileLoader(path).load() on one file of the directory: the
\* constructor tests exists() and is_file(), load opens and reads.
TextFileLoad(fp, e) ==
    IF e.kind = "gone"
    THEN [ok |-> FALSE, value |-> NoResult,
          error |-> Err("FileNotFoundError", "File not found", fp, NoRow, "none")]
    ELSE IF e.corrupt
    THEN [ok |-> FALSE, value |-> NoResult,
          error |-> Err("UnicodeDecodeError", "codec can't decode", NoPath, NoRow, "none")]
    ELSE [ok |-> TRUE, value |-> [path |-> fp, value |-> e.text], error |-> NoError]

\* ImageFileLoader(path).load() on one file of the directory: Image.open
\* fails on bytes that are no image.
ImageFileLoad(fp, e) ==
    IF e.kind = "gone"
    THEN [ok |-> FALSE, value |-> NoResult,
          error |-> Err("FileNotFoundError", "File not found", fp, NoRow, "none")]
    ELSE IF e.corrupt
    THEN [ok |-> FALSE, value |-> NoResult,
          error |-> Err("UnidentifiedImageError", "cannot identify image file", NoPath,
                        NoRow, "none")]
    ELSE [ok |-> TRUE, value |-> [path |-> fp, value |-> e.text], error |-> NoError]

\* The loaders whose list of files is made by the constructor.
FilesLoaders == {"texts", "images"}
FileLoad(l, fp, e) == IF l = "texts" THEN TextFileLoad(fp, e) ELSE ImageFileLoad(fp, e)

DirLoaders == {"jsons", "texts", "images"}
Searches == {"search_file_paths", "search_extension", "search_extensions"}

\* A caller starts a directory loader or a search on path p holding c.
CallDirectory(l, p, k, sch, c, es) ==
    /\ pc = "idle"
    /\ loader' = l
    /\ path' = p
    /\ kind' = k
    /\ schema' = sch
    /\ content' = c
    /\ extensions' = es
    /\ pc' = CASE l = "jsons" -> "check"
                [] l \in FilesLoaders -> "init"
                [] OTHER -> "search"
    /\ UNCHANGED <<corrupt, handle, headers, pos, row_number, validated, rows,
                   outcome, result, error, files>>
    /\ UNCHANGED exportVars
    /\ UNCHANGED concurrentVars

\* JsonsLoader.load: the two tests on d.
JsonsPathCheck ==
    /\ pc = "check"
    /\ loader = "jsons"
    /\ LET e == JsonsResolveDirectory(path, kind)
       IN IF e # NoError
          THEN Raise(e, handle)
          ELSE /\ pc' = "list"
               /\ UNCHANGED <<handle, outcome, result, error>>
    /\ UNCHANGED <<loader, path, kind, schema, content, corrupt, headers, pos,
                   row_number, validated, rows, extensions, files>>
    /\ UNCHANGED exportVars
    /\ UNCHANGED concurrentVars

\* json_files = PathSearcher.search_specific_extension_paths_from_directory_path(
\*     path=d, extension=".json")
JsonsList ==
    /\ pc = "list"
    /\ files' = SearchSpecificExtension(path, kind, content, DotJson)
    /\ pc' = "files"
    /\ UNCHANGED <<loader, path, kind, schema, content, corrupt, handle, headers,
                   pos, row_number, validated, rows, outcome, result, error,
                   extensions>>
    /\ UNCHANGED exportVars
    /\ UNCHANGED concurrentVars

\* One iteration of "for json_file in json_files": a LoadingError skips the
\* file, any other exception leaves the loop and load.
JsonsFileStep ==
    /\ pc = "files"
    /\ loader = "jsons"
    /\ pos < Len(files)
    /\ LET json_file == files[pos + 1]
           r == JsonLoad(schema, json_file, EntryAt(content, json_file))
       IN /\ pos' = pos + 1
          /\ IF r.ok
             THEN /\ rows' = Append(rows, r.value)
                  /\ handle' = "open"
                  /\ UNCHANGED <<pc, outcome, result, error>>
             ELSE IF IsLoadingErrorType(r.error.type)
                  THEN /\ handle' = "open"
                       /\ UNCHANGED <<pc, rows, outcome, result, error>>
                  ELSE /\ Raise(r.error, "open")
                       /\ UNCHANGED rows
    /\ UNCHANGED <<loader, path, kind, schema, content, corrupt, headers,
                   row_number, validated, extensions, files>>
    /\ UNCHANGED exportVars
    /\ UNCHANGED concurrentVars

\* TextFilesLoader.__init__: the two tests, then the search for ".txt".
TextFilesLoaderInit ==
    /\ pc = "init"
    /\ loader = "texts"
    /\ LET e == FilesLoaderResolveDirectory(path, kind)
       IN IF e # NoError
          THEN /\ Raise(e, handle)
               /\ UNCHANGED files
          ELSE /\ files' = SearchSpecificExtension(path, kind, content, DotTxt)
               /\ pc' = "files"
               /\ UNCHANGED <<handle, outcome, result, error>>
    /\ UNCHANGED <<loader, path, kind, schema, content, corrupt, headers, pos,
                   row_number, validated, rows, extensions>>
    /\ UNCHANGED exportVars
    /\ UNCHANGED concurrentVars

\* ImageFilesLoader.__init__: the two tests, then the search for the
\* extensions the caller gave.
ImageFilesLoaderInit ==
    /\ pc = "init"
    /\ loader = "images"
    /\ LET e == FilesLoaderResolveDirectory(path, kind)
       IN IF e # NoError
          THEN /\ Raise(e, handle)
               /\ UNCHANGED files
          ELSE /\ files' = SearchSpecificExtensions(path, kind, content, extensions)
               /\ pc' = "files"
               /\ UNCHANGED <<handle, outcome, result, error>>
    /\ UNCHANGED <<loader, path, kind, schema, content, corrupt, headers, pos,
                   row_number, validated, rows, extensions>>
    /\ UNCHANGED exportVars
    /\ UNCHANGED concurrentVars

\* Variant: a file that cannot be loaded is left out and the loop goes on.
TextsFileStepSkipping ==
    /\ pc = "files"
    /\ loader = "texts"
    /\ pos < Len(files)
    /\ LET text_file == files[pos + 1]
           r == TextFileLoad(text_file, EntryAt(content, text_file))
       IN /\ pos' = pos + 1
          /\ handle' = "closed"
          /\ rows' = IF r.ok THEN Append(rows, r.value) ELSE rows
          /\ UNCHANGED <<pc, outcome, result, error>>
    /\ UNCHANGED <<loader, path, kind, schema, content, corrupt, headers,
                   row_number, validated, extensions, files>>
    /\ UNCHANGED exportVars
    /\ UNCHANGED concurrentVars

\* One iteration of "for text_file in self.text_files_guaranteed".
TextsFileStep ==
    /\ pc = "files"
    /\ loader = "texts"
    /\ pos < Len(files)
    /\ LET text_file == files[pos + 1]
           r == TextFileLoad(text_file, EntryAt(content, text_file))
       IN /\ pos' = pos + 1
          /\ IF r.ok
             THEN /\ rows' = Append(rows, r.value)
                  /\ handle' = "closed"
                  /\ UNCHANGED <<pc, outcome, result, error>>
             ELSE /\ Raise(r.error, "closed")
                  /\ UNCHANGED rows
    /\ UNCHANGED <<loader, path, kind, schema, content, corrupt, headers,
                   row_number, validated, extensions, files>>
    /\ UNCHANGED exportVars
    /\ UNCHANGED concurrentVars

\* One iteration of "for image_file in self.image_files_guaranteed".
ImagesFileStep ==
    /\ pc = "files"
    /\ loader = "images"
    /\ pos < Len(files)
    /\ LET image_file == files[pos + 1]
           r == ImageFileLoad(image_file, EntryAt(content, image_file))
       IN /\ pos' = pos + 1
          /\ IF r.ok
             THEN /\ rows' = Append(rows, r.value)
                  /\ handle' = "closed"
                  /\ UNCHANGED <<pc, outcome, result, error>>
             ELSE /\ Raise(r.error, "closed")
                  /\ UNCHANGED rows
    /\ UNCHANGED <<loader, path, kind, schema, content, corrupt, headers,
                   row_number, validated, extensions, files>>
    /\ UNCHANGED exportVars
    /\ UNCHANGED concurrentVars

\* Between the construction of a TextFilesLoader or ImageFilesLoader and a
\* call of its load, another process adds a file the loader's search would
\* find to the directory.
Listing(l, p, k, c, es) ==
    IF l = "texts" THEN SearchSpecificExtension(p, k, c, DotTxt)
    ELSE SearchSpecificExtensions(p, k, c, es)
BetweenConstructionAndLoad ==
    /\ pc = "files"
    /\ loader \in FilesLoaders
    /\ pos = 0
CreateFile ==
    /\ BetweenConstructionAndLoad
    /\ Len(content) < MaxEntries
    /\ \E e \in {d \in DirEntrySet : d.kind = "file"} :
        /\ Len(Listing(loader, path, kind, Append(content, e), extensions))
             > Len(Listing(loader, path, kind, content, extensions))
        /\ content' = Append(content, Created(e))
    /\ UNCHANGED <<loader, pc, path, kind, schema, corrupt, handle, headers, pos,
                   row_number, validated, rows, outcome, result, error, extensions,
                   files>>
    /\ UNCHANGED exportVars
    /\ UNCHANGED concurrentVars

\* ... or deletes one of the files the constructor listed.
DeleteFile ==
    /\ BetweenConstructionAndLoad
    /\ \A i \in 1..Len(content) : content[i].kind # "gone"
    /\ \E j \in 1..Len(files) :
        /\ EntryAt(content, files[j]).kind = "file"
        /\ content' = [content EXCEPT ![files[j].name[1]] = Gone(@)]
    /\ UNCHANGED <<loader, pc, path, kind, schema, corrupt, handle, headers, pos,
                   row_number, validated, rows, outcome, result, error, extensions,
                   files>>
    /\ UNCHANGED exportVars
    /\ UNCHANGED concurrentVars

\* Variant: load searches the directory again.
LoadAgainRelisting ==
    /\ pc = "done"
    /\ loader \in FilesLoaders
    /\ FilesLoaderResolveDirectory(path, kind) = NoError
    /\ pc' = "files"
    /\ pos' = 0
    /\ rows' = <<>>
    /\ handle' = "none"
    /\ outcome' = "none"
    /\ result' = NoResult
    /\ error' = NoError
    /\ files' = Listing(loader, path, kind, content, extensions)
    /\ UNCHANGED <<loader, path, kind, schema, content, corrupt, headers,
                   row_number, validated, extensions>>
    /\ UNCHANGED exportVars
    /\ UNCHANGED concurrentVars

\* load is called once more on the instance: a new results list, the loop
\* over the list of files the constructor stored.
LoadAgain ==
    /\ pc = "done"
    /\ loader \in FilesLoaders
    /\ FilesLoaderResolveDirectory(path, kind) = NoError
    /\ pc' = "files"
    /\ pos' = 0
    /\ rows' = <<>>
    /\ handle' = "none"
    /\ outcome' = "none"
    /\ result' = NoResult
    /\ error' = NoError
    /\ UNCHANGED <<loader, path, kind, schema, content, corrupt, headers,
                   row_number, validated, extensions, files>>
    /\ UNCHANGED exportVars
    /\ UNCHANGED concurrentVars

\* A TextFileLoader or ImageFileLoader is built and used on path p.
CallFileLoader ==
    /\ pc = "idle"
    /\ \E l \in {"text", "image"}, p \in Paths, k \in Kinds :
        \E c \in (IF k = "file" THEN FilesOf(l) ELSE {<<>>}) :
            Call(l, p, k, [f \in FieldSet |-> TRUE], c, FALSE)

\* Between the construction of a TextFileLoader or ImageFileLoader and the
\* call of its load, another process deletes the file.
RemoveFile ==
    /\ pc = "load"
    /\ loader \in {"text", "image"}
    /\ Exists(kind)
    /\ kind' = "missing"
    /\ content' = <<>>
    /\ UNCHANGED <<loader, pc, path, schema, corrupt, handle, headers, pos,
                   row_number, validated, rows, outcome, result, error, extensions,
                   files>>
    /\ UNCHANGED exportVars
    /\ UNCHANGED concurrentVars

\* return JsonsLoadResult(directory_path=d, value=results)
DirectoryReturn ==
    /\ pc = "files"
    /\ pos >= Len(files)
    /\ pc' = "done"
    /\ outcome' = "returned"
    /\ result' = [path |-> path, value |-> rows]
    /\ UNCHANGED <<loader, path, kind, schema, content, corrupt, handle, headers,
                   pos, row_number, validated, rows, error, extensions, files>>
    /\ UNCHANGED exportVars
    /\ UNCHANGED concurrentVars

\* A direct call of one of the three PathSearcher methods.
Search ==
    /\ pc = "search"
    /\ files' = CASE loader = "search_file_paths" -> SearchFilePaths(path, kind, content)
                   [] loader = "search_extension" ->
                        SearchSpecificExtension(path, kind, content, extensions[1])
                   [] OTHER -> SearchSpecificExtensions(path, kind, content, extensions)
    /\ pc' = "done"
    /\ outcome' = "returned"
    /\ UNCHANGED <<loader, path, kind, schema, content, corrupt, handle, headers,
                   pos, row_number, validated, rows, result, error, extensions>>
    /\ UNCHANGED exportVars
    /\ UNCHANGED concurrentVars

ExtensionsOf(l) ==
    CASE l = "search_extension" -> {<<e>> : e \in ExtensionSet}
      [] l = "search_extensions" -> SeqUpTo(ExtensionSet, MaxExtensions)
      [] l = "images" -> {<<DotTxt>>, <<<<"j", "s", "o", "n">>, DotTxt>>}
      [] OTHER -> {<<>>}

CallAnyDirectory ==
    /\ pc = "idle"
    /\ \E l \in DirLoaders \cup Searches, p \in Paths, k \in Kinds :
        \E sch \in (IF l = "jsons" THEN Schemas ELSE {[f \in FieldSet |-> TRUE]}) :
            \E c \in (IF k = "dir" THEN Directories ELSE {<<>>}) :
                \E es \in ExtensionsOf(l) :
                    CallDirectory(l, p, k, sch, c, es)

NextDirectory ==
    \/ CallAnyDirectory
    \/ JsonsPathCheck
    \/ JsonsList
    \/ JsonsFileStep
    \/ TextFilesLoaderInit
    \/ TextsFileStep
    \/ ImageFilesLoaderInit
    \/ ImagesFileStep
    \/ CreateFile
    \/ DeleteFile
    \/ LoadAgain
    \/ CallFileLoader
    \/ FileLoaderInit
    \/ RemoveFile
    \/ FileLoaderLoad
    \/ DirectoryReturn
    \/ Search
    \/ Reset

SpecDirectory == Init /\ [][NextDirectory]_vars

\* ---------------------------------------------------------------- export
\* Largest number of rows of an exported collection.
MaxExportRows == 2

\* A model class is the list of its fields in declaration order, which is
\* the key order of model_dump(); a model may declare a field named path.
PathField == <<"p", "a", "t", "h">>
ExportSchemas == {<<Name, Age>>, <<Name>>, <<PathField, Name>>, <<Name, PathField>>}
ExportValues == {StrV(<<"x">>), IntV(7)}
Range(s) == {s[i] : i \in 1..Len(s)}

\* The classes with to_polars / to_pandas, and the paths their objects and
\* rows can carry: the files a and b, and the directory d.
ExportClasses ==
    {"CsvLoadResult", "JsonlLoadResult", "ParquetLoaded", "DataframeExportable",
     "JsonsLoadResult"}
ExportPaths == {"a", "b", "d"}
ExportRows(fields) ==
    {[path |-> p, value |-> v] : p \in {"a", "b"}, v \in [Range(fields) -> ExportValues]}
Collections ==
    UNION {{[class |-> cls, path |-> p, fields |-> fs, value |-> rs] :
               cls \in ExportClasses, p \in ExportPaths,
               rs \in SeqUpTo(ExportRows(fs), MaxExportRows)} : fs \in ExportSchemas}

\* str(path): the text of a path.
PathStr(p) == StrV(<<"/", p>>)

\* row.model_dump(): the dict of the fields, in declaration order.
ModelDump(fields, row) == [columns |-> fields, cells |-> row.value]

\* dict[key] = value: a present key keeps its place, a new one goes last.
DictSet(dict, key, value) ==
    [columns |-> IF key \in Range(dict.columns) THEN dict.columns
                 ELSE Append(dict.columns, key),
     cells |-> [c \in Range(dict.columns) \cup {key} |->
                  IF c = key THEN value ELSE dict.cells[c]]]

\* polars.DataFrame(dicts) / pandas.DataFrame(dicts): the columns are the
\* keys of the dicts, one row per dict; no dicts, no columns.
DataFrame(dicts) ==
    [columns |-> IF dicts = <<>> THEN <<>> ELSE dicts[1].columns,
     rows |-> [i \in 1..Len(dicts) |-> dicts[i].cells]]

\* Variant: the new column is always added after the others.
WithColumnAppended(df, name, value) ==
    [columns |-> Append(df.columns, name),
     rows |-> [i \in 1..Len(df.rows) |->
                 [c \in Range(df.columns) \cup {name} |->
                     IF c = name THEN value ELSE df.rows[i][c]]]]

\* df.with_columns(polars.lit(value).alias(name)) / df[name] = value: every
\* row gets the value; a column of that name is replaced where it stands.
WithColumn(df, name, value) ==
    [columns |-> IF name \in Range(df.columns) THEN df.columns
                 ELSE Append(df.columns, name),
     rows |-> [i \in 1..Len(df.rows) |->
                 [c \in Range(df.columns) \cup {name} |->
                     IF c = name THEN value ELSE df.rows[i][c]]]]

\* Variant: the test for an empty collection is missing.
ToFrameOfSelfPathUnguarded(coll, include) ==
    LET df == DataFrame([i \in 1..Len(coll.value) |-> ModelDump(coll.fields, coll.value[i])])
    IN IF include THEN WithColumn(df, PathField, PathStr(coll.path)) ELSE df

\* CsvLoadResult, JsonlLoadResult and fukinotou.dataframe_exportable
\* (ParquetLoaded): the frame of the dumps, then a path column that holds
\* str(self.path) in every row.
ToFrameOfSelfPath(coll, include) ==
    IF coll.value = <<>> THEN DataFrame(<<>>)
    ELSE LET df == DataFrame([i \in 1..Len(coll.value) |->
                                 ModelDump(coll.fields, coll.value[i])])
         IN IF include THEN WithColumn(df, PathField, PathStr(coll.path)) ELSE df

\* fukinotou.abstraction.dataframe_exportable and JsonsLoadResult: each dump
\* gets the key path with str(row.path) before the frame is made.
ToFrameOfRowPaths(coll, include) ==
    IF coll.value = <<>> THEN DataFrame(<<>>)
    ELSE DataFrame([i \in 1..Len(coll.value) |->
                       IF include
                       THEN DictSet(ModelDump(coll.fields, coll.value[i]), PathField,
                                    PathStr(coll.value[i].path))
                       ELSE ModelDump(coll.fields, coll.value[i])])

UsesSelfPath(cls) == cls \in {"CsvLoadResult", "JsonlLoadResult", "ParquetLoaded"}
ToFrame(coll, include) ==
    IF UsesSelfPath(coll.class) THEN ToFrameOfSelfPath(coll, include)
    ELSE ToFrameOfRowPaths(coll, include)

\* An exportable collection is built, by a load or by its constructor.
Construct ==
    /\ pc = "idle"
    /\ collection = NoCollection
    /\ \E coll \in Collections : collection' = coll
    /\ pc' = "built"
    /\ UNCHANGED <<include_path_as_column, table>>
    /\ UNCHANGED <<loader, path, kind, schema, content, corrupt, handle, headers,
                   pos, row_number, validated, rows, outcome, result, error,
                   extensions, files>>
    /\ UNCHANGED concurrentVars

\* collection.to_polars(include_path_as_column)
ToPolars ==
    /\ pc = "built"
    /\ \E include \in BOOLEAN :
        /\ include_path_as_column' = include
        /\ table' = [lib |-> "polars"] @@ ToFrame(collection, include)
    /\ pc' = "exported"
    /\ UNCHANGED collection
    /\ UNCHANGED <<loader, path, kind, schema, content, corrupt, handle, headers,
                   pos, row_number, validated, rows, outcome, result, error,
                   extensions, files>>
    /\ UNCHANGED concurrentVars

\* collection.to_pandas(include_path_as_column)
ToPandas ==
    /\ pc = "built"
    /\ \E include \in BOOLEAN :
        /\ include_path_as_column' = include
        /\ table' = [lib |-> "pandas"] @@ ToFrame(collection, include)
    /\ pc' = "exported"
    /\ UNCHANGED collection
    /\ UNCHANGED <<loader, path, kind, schema, content, corrupt, handle, headers,
                   pos, row_number, validated, rows, outcome, result, error,
                   extensions, files>>
    /\ UNCHANGED concurrentVars

\* The caller has the table; the collection is dropped.
Discard ==
    /\ pc = "exported"
    /\ pc' = "idle"
    /\ collection' = NoCollection
    /\ include_path_as_column' = FALSE
    /\ table' = NoTable
    /\ UNCHANGED <<loader, path, kind, schema, content, corrupt, handle, headers,
                   pos, row_number, validated, rows, outcome, result, error,
                   extensions, files>>
    /\ UNCHANGED concurrentVars

NextExport ==
    \/ Construct
    \/ ToPolars
    \/ ToPandas
    \/ Discard

SpecExport == Init /\ [][NextExport]_vars

\* ---------------------------------------------------------------- two calls
\* Two load calls run at once, on the files a and b.  A CsvLoader or
\* JsonlLoader object holds its model class and nothing else.
CallIds == {1, 2}
Instances == {[class |-> l, model |-> sch] : l \in {"csv", "jsonl"}, sch \in Schemas}

\* The files the two calls are given.
GoodRecord == << <<"x">>, <<"7">> >>
ConcurrentCsvFiles ==
    { <<>>,
      << <<Name, Age>> >>,
      << <<Name, Age>>, GoodRecord >>,
      << <<Name, Age>>, << <<" ">> >>, GoodRecord >>,
      << <<Name, Age>>, << <<"7">>, <<"x">> >> >>,
      << <<Name, Age>>, GoodRecord, << <<"x">> >> >> }
GoodLine == [ws |-> 0, text |-> FullDoc]
ConcurrentJsonlFiles ==
    { <<>>,
      << GoodLine >>,
      << [ws |-> 1, text |-> [body |-> "empty", obj |-> EmptyMap]], GoodLine >>,
      << [ws |-> 0, text |-> MalformedDoc] >>,
      << GoodLine, [ws |-> 0, text |-> NameOnlyDoc] >> }
ConcurrentFiles(l) == IF l = "csv" THEN ConcurrentCsvFiles ELSE ConcurrentJsonlFiles

\* The frame of a call of load on instance s with path p, before its first
\* statement; k and c are what the file system holds at p.
NewFrame(s, l, p, k, c) ==
    [self |-> s, loader |-> l, path |-> p, kind |-> k, content |-> c, pc |-> "check",
     headers |-> <<>>, pos |-> 0, row_number |-> 0, outcome |-> "none",
     result |-> NoResult, error |-> NoError]

\* raise e in a frame.
FrameRaise(f, e) ==
    [f EXCEPT !.pc = "done", !.outcome = "raised", !.error = e, !.result = NoResult]

\* One step of load in frame f: model is self.model, list the rows list of
\* the call.  Gives the frame and the list after the step.
FrameStep(f, model, list) ==
    CASE f.pc = "check" ->
           LET e == ResolveFile(f.loader, f.path, f.kind)
           IN [frame |-> IF e # NoError THEN FrameRaise(f, e)
                          ELSE [f EXCEPT !.pc = IF f.loader = "csv" THEN "header"
                                                ELSE "open"],
               list |-> list]
      [] f.pc = "header" ->
           LET r == NextRecord(f.content, f.pos)
           IN [frame |-> IF r.stop
                          THEN FrameRaise(f, Err("LoadingError", "No headers found in",
                                                 f.path, NoRow, "none"))
                          ELSE [f EXCEPT !.headers = r.rec, !.pos = f.pos + 1,
                                         !.row_number = CsvStart - 1, !.pc = "rows"],
               list |-> list]
      [] f.pc = "open" ->
           [frame |-> [f EXCEPT !.pos = 0, !.row_number = JsonlStart - 1, !.pc = "rows"],
            list |-> list]
      [] f.pc = "rows" /\ f.pos >= Len(f.content) ->
           [frame |-> [f EXCEPT !.pc = "done", !.outcome = "returned",
                                !.result = [path |-> f.path, value |-> list]],
            list |-> list]
      [] f.pc = "rows" /\ f.pos < Len(f.content) /\ f.loader = "csv" ->
           LET row_data == f.content[f.pos + 1]
               blank == CsvIsBlank(row_data)
               n == Advance(f.row_number, blank)
               v == Validate(model, CsvRowDict(f.headers, row_data))
               g == [f EXCEPT !.pos = f.pos + 1, !.row_number = n]
           IN IF blank THEN [frame |-> g, list |-> list]
              ELSE IF v.ok
              THEN [frame |-> g,
                    list |-> Append(list, [path |-> f.path, value |-> v.value])]
              ELSE IF OnInvalid(f.loader) = "raise"
              THEN [frame |-> FrameRaise(g, Err("LoadingError", "Error parsing row",
                                                f.path, {n}, "ValidationError")),
                    list |-> list]
              ELSE [frame |-> g, list |-> list]
      [] OTHER ->
           LET line == f.content[f.pos + 1]
               raw == JsonlStrip(line)
               blank == JsonlIsBlank(line)
               n == Advance(f.row_number, blank)
               v == JsonValidate(model, raw)
               g == [f EXCEPT !.pos = f.pos + 1, !.row_number = n]
           IN IF blank THEN [frame |-> g, list |-> list]
              ELSE IF JsonMalformed(raw)
              THEN [frame |-> FrameRaise(g, Err("LoadingError",
                                                "Error parsing JSON on line", f.path,
                                                {n}, "JSONDecodeError")),
                    list |-> list]
              ELSE IF v.ok
              THEN [frame |-> g,
                    list |-> Append(list, [path |-> f.path, value |-> v.value])]
              ELSE IF OnInvalid(f.loader) = "raise"
              THEN [frame |-> FrameRaise(g, Err("LoadingError", "Error validating row",
                                                f.path, {n}, "ValidationError")),
                    list |-> list]
              ELSE [frame |-> g, list |-> list]

\* Variant: the rows are collected in one list that all calls use.
RowsListShared(i) == 1

\* csv_rows = [] / jsonl_rows = []: every call makes a list of its own.
RowsList(i) == i

\* Two calls start: on one loader object or on two, each on its own file.
StartCalls ==
    /\ pc = "idle"
    /\ frames = <<>>
    /\ \E s1 \in Instances, s2 \in Instances, same \in BOOLEAN :
        \E k1 \in Kinds, k2 \in Kinds :
          \E c1 \in (IF k1 = "file" THEN ConcurrentFiles(s1.class) ELSE {<<>>}) :
            \E c2 \in (IF k2 = "file"
                        THEN ConcurrentFiles(IF same THEN s1.class ELSE s2.class)
                        ELSE {<<>>}) :
                /\ same => s2 = s1
                /\ selves' = <<s1, s2>>
                /\ frames' = << NewFrame(1, s1.class, "a", k1, c1),
                                IF same THEN NewFrame(1, s1.class, "b", k2, c2)
                                ELSE NewFrame(2, s2.class, "b", k2, c2) >>
                /\ lists' = << <<>>, <<>> >>
    /\ UNCHANGED <<loader, pc, path, kind, schema, content, corrupt, handle, headers,
                   pos, row_number, validated, rows, outcome, result, error,
                   extensions, files>>
    /\ UNCHANGED exportVars

\* The scheduler lets call i run its next step.
StepCall ==
    /\ frames # <<>>
    /\ \E i \in CallIds :
        /\ frames[i].pc # "done"
        /\ LET s == FrameStep(frames[i], selves[frames[i].self].model,
                               lists[RowsList(i)])
           IN /\ frames' = [frames EXCEPT ![i] = s.frame]
              /\ lists' = [lists EXCEPT ![RowsList(i)] = s.list]
    /\ UNCHANGED selves
    /\ UNCHANGED <<loader, pc, path, kind, schema, content, corrupt, handle, headers,
                   pos, row_number, validated, rows, outcome, result, error,
                   extensions, files>>
    /\ UNCHANGED exportVars

\* Both callers have their outcome.
EndCalls ==
    /\ frames # <<>>
    /\ \A i \in CallIds : frames[i].pc = "done"
    /\ frames' = <<>>
    /\ selves' = <<>>
    /\ lists' = <<>>
    /\ UNCHANGED <<loader, pc, path, kind, schema, content, corrupt, handle, headers,
                   pos, row_number, validated, rows, outcome, result, error,
                   extensions, files>>
    /\ UNCHANGED exportVars

NextConcurrent ==
    \/ StartCalls
    \/ StepCall
    \/ EndCalls

SpecConcurrent == Init /\ [][NextConcurrent]_vars

\* ---------------------------------------------------------------- claims
\* The library's loading error type, under both names the sources use.
IsLoadingError(e) == e.type \in {"LoadingError", "LoadingException"}

\* The units of a file that follow the header (CSV) or all of them.
DataUnits(l, c) == IF l = "csv" THEN Tail(c) ELSE c

\* A unit that is entirely blank: a CSV record whose cells are all empty
\* after trimming, a JSONL line of whitespace.  A Parquet row is a record
\* whatever its cells hold.
IsBlankUnit(l, u) ==
    CASE l = "csv" -> \A i \in 1..Len(u) : Strip(u[i]) = <<>>
      [] l = "jsonl" -> u.text.body = "empty"
      [] OTHER -> FALSE

\* The same, with a Parquet row whose cells are all null counted as blank.
IsBlankUnitWithNulls(l, u) ==
    IF l = "parquet" THEN \A k \in DOMAIN u : u[k] = NullV
    ELSE IsBlankUnit(l, u)

\* The unit decodes (JSONL: the line is JSON syntax).
DecodesUnit(l, u) == l = "jsonl" => ~JsonMalformed(u.text)

\* The record a decoded unit stands for, validated against the schema.
ValidatedUnit(l, sch, c, u) ==
    CASE l = "csv" -> Validate(sch, CsvRowDict(c[1], u))
      [] l = "jsonl" -> JsonValidate(sch, u.text)
      [] OTHER -> Validate(sch, ParquetCleaned(u))

\* The file can be read as its format: it can be read to its end, a CSV
\* file has a header, every non-blank JSONL line is JSON.
WellFormed(l, c, cr) ==
    /\ ~cr
    /\ l = "csv" => Len(c) >= 1
    /\ l = "jsonl" => \A i \in 1..Len(c) : IsBlankUnit(l, c[i]) \/ DecodesUnit(l, c[i])

RowLoadDone == pc = "done" /\ loader \in RowLoaders /\ IsFile(kind)

NonBlankUnits(l, c) == SelectSeq(DataUnits(l, c), LAMBDA u : ~IsBlankUnit(l, u))
NonBlankUnitsWithNulls(l, c) ==
    SelectSeq(DataUnits(l, c), LAMBDA u : ~IsBlankUnitWithNulls(l, u))

ExpectedRows(l, p, sch, c, units) ==
    [i \in 1..Len(units) |->
        [path |-> p, value |-> ValidatedUnit(l, sch, c, units[i]).value]]

AllSatisfy(l, sch, c, units) ==
    \A i \in 1..Len(units) : ValidatedUnit(l, sch, c, units[i]).ok

BadPositions(l, sch, c) ==
    {i \in (IF l = "csv" THEN 2 ELSE 1)..Len(c) :
        /\ ~IsBlankUnit(l, c[i])
        /\ ~(DecodesUnit(l, c[i]) /\ ValidatedUnit(l, sch, c, c[i]).ok)}

Min(S) == CHOOSE x \in S : \A y \in S : x <= y

C3_AsStated ==
    (/\ RowLoadDone
     /\ outcome = "raised"
     /\ error.cause = "ValidationError")
    => /\ error.path = path
       /\ error.row = {pos}

\* C4: the number in a CSV or JSONL row error is the failing record's
\* 1-based physical position in the file (CSV: the header is 1, so data
\* starts at 2), whatever the number of blank units skipped before it.
C4_PhysicalPosition ==
    (/\ RowLoadDone
     /\ loader \in {"csv", "jsonl"}
     /\ outcome = "raised"
     /\ error.cause \in {"ValidationError", "JSONDecodeError"})
    => /\ error.row = {Min(BadPositions(loader, schema, content))}
       /\ loader = "csv" => \A n \in error.row : n >= 2

\* A row error was raised for a record that follows a skipped blank unit.
C4_Witness ==
    /\ RowLoadDone
    /\ loader \in {"csv", "jsonl"}
    /\ outcome = "raised"
    /\ error.row # NoRow
    /\ \E i \in 1..Len(content) :
          /\ i > (IF loader = "csv" THEN 1 ELSE 0)
          /\ i < pos
          /\ IsBlankUnit(loader, content[i])

\* C5 (as stated): every failure of a loader, path-resolution failures
\* included, surfaces as the library's loading error type, never as a bare
\* FileNotFoundError or ValueError.
C5_AsStated == outcome = "raised" => IsLoadingError(error)

DirectoryMessages == {"Input path is a directory", "Input path is directory path"}

\* C6 (as stated): every single-file loader fails with 'File not found' on a
\* path that does not exist and with a different, directory-naming error on
\* a path that is a directory.
C6_AsStated ==
    pc = "done" =>
        /\ kind = "missing" => outcome = "raised" /\ error.msg = "File not found"
        /\ kind = "dir" => outcome = "raised" /\ error.msg \in DirectoryMessages

\* CsvLoader.load has finished on a file every byte of which decodes.
CsvLoadDone == pc = "done" /\ loader = "csv" /\ IsFile(kind) /\ ~corrupt

C9_HeaderOnly ==
    (CsvLoadDone /\ Len(content) = 1)
    => /\ outcome = "returned"
       /\ result = [path |-> path, value |-> <<>>]
       /\ error = NoError

\* CsvLoader.load has returned for a header-only file with a real header.
C9_Witness ==
    /\ CsvLoadDone
    /\ Len(content) = 1
    /\ headers = <<Name, Age>>
    /\ outcome = "returned"

IsDecodeFailure(e) ==
    \/ e.cause \in {"JSONDecodeError", "Exception"}
    \/ e.type = "UnicodeDecodeError"

\* C11 (as stated): a decode or read failure in a CSV, JSON, JSONL or Parquet
\* load is wrapped into a loading error that carries the file path and keeps
\* the original exception as its cause; none leaves load unwrapped.
C11_AsStated ==
    (/\ pc = "done"
     /\ loader \in {"csv", "json", "jsonl", "parquet"}
     /\ IsFile(kind)
     /\ outcome = "raised"
     /\ IsDecodeFailure(error))
    => /\ IsLoadingError(error)
       /\ error.path = path
       /\ error.cause # "none"

\* C12 (as stated): every file handle a CSV, JSON or JSONL load opens is
\* closed by the time load returns or raises, on every exit path.
C12_AsStated ==
    (pc = "done" /\ loader \in {"csv", "json", "jsonl"}) => handle # "open"

\* The keys a unit of the input supplies: the header names its cells reach
\* (CSV), the keys of the object (JSON, JSONL), the columns (Parquet).
SuppliedKeys(l, c, u) ==
    CASE l = "csv" ->
           {c[1][i] : i \in 1..(IF Len(u) < Len(c[1]) THEN Len(u) ELSE Len(c[1]))}
      [] l = "jsonl" -> DOMAIN u.text.obj
      [] l = "json" -> DOMAIN u.obj
      [] OTHER -> DOMAIN u

SuppliedValue(l, c, u, f) ==
    CASE l = "csv" -> StrV(u[CHOOSE i \in 1..Len(c[1]) : c[1][i] = f])
      [] l = "jsonl" -> u.text.obj[f]
      [] l = "json" -> u.obj[f]
      [] OTHER -> u[f]

IsObjectUnit(l, u) ==
    CASE l = "jsonl" -> u.text.body = "object"
      [] l = "json" -> u.body = "object"
      [] OTHER -> TRUE

\* The only thing a unit may lack is a field that has a default: what it
\* supplies for a schema field is acceptable as it stands.
OnlyLacksDefaults(l, sch, c, u) ==
    /\ IsObjectUnit(l, u)
    /\ \A f \in FieldSet :
          IF f \in SuppliedKeys(l, c, u)
          THEN Coerce(FieldType(f), SuppliedValue(l, c, u, f)).ok
          ELSE sch[f]

\* The units a load turns into records, and the records it returned.
RecordUnits(l, c) == IF l = "json" THEN c ELSE NonBlankUnits(l, c)
ReturnedRecords ==
    IF loader = "json" THEN <<result.value>>
    ELSE [i \in 1..Len(result.value) |-> result.value[i].value]

RecordLoadDone ==
    /\ pc = "done"
    /\ loader \in RowLoaders \cup {"json"}
    /\ IsFile(kind)
    /\ ~corrupt
    /\ loader = "csv" => Len(content) >= 1

\* C13: when records lack nothing but fields the schema gives a default
\* (a CSV row shorter than the header, a CSV or Parquet file without the
\* column, a JSON object without the key), the load succeeds and each such
\* field equals its default on the resulting record.
C13_DefaultsFill ==
    (/\ RecordLoadDone
     /\ \A i \in 1..Len(RecordUnits(loader, content)) :
           OnlyLacksDefaults(loader, schema, content, RecordUnits(loader, content)[i]))
    => /\ outcome = "returned"
       /\ Len(ReturnedRecords) = Len(RecordUnits(loader, content))
       /\ \A i \in 1..Len(RecordUnits(loader, content)) :
             \A f \in FieldSet \ SuppliedKeys(loader, content,
                                                RecordUnits(loader, content)[i]) :
                 ReturnedRecords[i][f] = FieldDefault(f)

\* A CSV load returned a record for a one-cell row under a two-column
\* header: age was never supplied and holds its default.
C13_Witness ==
    /\ RecordLoadDone
    /\ loader = "csv"
    /\ outcome = "returned"
    /\ content[1] = <<Name, Age>>
    /\ Len(content) = 2
    /\ content[2] = << <<"x">> >>
    /\ result.value[1].value = [f \in FieldSet |-> IF f = Age THEN IntV(0) ELSE StrV(<<"x">>)]

\* The same input with every column or key that is not a schema field taken
\* out: CSV cells under such a header (cells beyond the header stay), keys
\* of a JSONL object, Parquet columns.
RECURSIVE WithoutExtraCells(_, _, _)
WithoutExtraCells(hs, r, n) ==
    IF n = 0 THEN <<>>
    ELSE LET acc == WithoutExtraCells(hs, r, n - 1)
         IN IF n > Len(hs) \/ hs[n] \in FieldSet THEN Append(acc, r[n]) ELSE acc

WithoutExtraKeys(fmap) == [k \in DOMAIN fmap \cap FieldSet |-> fmap[k]]

WithoutExtras(l, c) ==
    CASE l = "csv" -> [i \in 1..Len(c) |-> WithoutExtraCells(c[1], c[i], Len(c[i]))]
      [] l = "jsonl" ->
           [i \in 1..Len(c) |->
               [ws |-> c[i].ws,
                text |-> [body |-> c[i].text.body,
                          obj |-> WithoutExtraKeys(c[i].text.obj)]]]
      [] OTHER -> [i \in 1..Len(c) |-> WithoutExtraKeys(c[i])]

\* What a load of content c comes to, given the units it validates.
LoadsAs(l, p, sch, c, units) ==
    IF AllSatisfy(l, sch, c, units)
    THEN /\ outcome = "returned"
         /\ result = [path |-> p, value |-> ExpectedRows(l, p, sch, c, units)]
    ELSE outcome = "raised"

\* C14 (as stated): columns and keys that are not schema fields are ignored:
\* the load succeeds or fails, and its records hold the values, exactly as
\* if the input came without them.
C14_AsStated ==
    (RowLoadDone /\ WellFormed(loader, content, corrupt))
    => LoadsAs(loader, path, schema, WithoutExtras(loader, content),
               NonBlankUnits(loader, WithoutExtras(loader, content)))

\* The units of c that are not blank, each with its extra columns taken out.
NonBlankWithoutExtras(l, c) ==
    LET units == DataUnits(l, c)
        stripped == DataUnits(l, WithoutExtras(l, c))
        kept == SelectSeq([i \in 1..Len(units) |-> i],
                          LAMBDA i : ~IsBlankUnit(l, units[i]))
    IN [j \in 1..Len(kept) |-> stripped[kept[j]]]

\* C14 (amended): validation ignores columns and keys that are not schema
\* fields: every unit that is not blank validates, or fails, and yields the
\* values, exactly as if it came without them, and no record carries them.
\* Whether a CSV row is blank is decided on all of its cells.
C14_ExtrasIgnored ==
    (RowLoadDone /\ WellFormed(loader, content, corrupt))
    => /\ LoadsAs(loader, path, schema, WithoutExtras(loader, content),
                  NonBlankWithoutExtras(loader, content))
       /\ \A i \in 1..Len(result.value) : DOMAIN result.value[i].value = FieldSet

\* A CSV load returned a record for a row with a cell in a column the schema
\* does not have.
C14_Witness ==
    /\ RowLoadDone
    /\ loader = "csv"
    /\ outcome = "returned"
    /\ content[1] = <<Name, Age, Extra>>
    /\ Len(content) = 2
    /\ content[2] = << <<"x">>, <<"7">>, <<"x">> >>
    /\ result.value[1].value = [f \in FieldSet |-> IF f = Age THEN IntV(7) ELSE StrV(<<"x">>)]

ParquetLoadDone == pc = "done" /\ loader = "parquet" /\ IsFile(kind) /\ ~corrupt

\* Every cell of the row that holds a value is acceptable for its field, and
\* every field left without a value (null cell, or no column) has a default.
NullsOnlyOnDefaults(sch, row_dict) ==
    \A f \in FieldSet :
        IF f \in DOMAIN row_dict /\ row_dict[f] # NullV
        THEN Coerce(FieldType(f), row_dict[f]).ok
        ELSE sch[f]

\* C15: ParquetLoader.load treats a null cell of a field that has a default
\* as an absent field: the row validates, the field takes its default, and
\* the cells that hold a value keep it.
C15_NullTakesDefault ==
    (/\ ParquetLoadDone
     /\ \A i \in 1..Len(content) : NullsOnlyOnDefaults(schema, content[i]))
    => /\ outcome = "returned"
       /\ Len(result.value) = Len(content)
       /\ \A i \in 1..Len(content) :
             \A f \in FieldSet \cap DOMAIN content[i] :
                 result.value[i].value[f] =
                     IF content[i][f] = NullV THEN FieldDefault(f) ELSE content[i][f]

\* ParquetLoader.load returned a record for a row with a name and a null age.
C15_Witness ==
    /\ ParquetLoadDone
    /\ outcome = "returned"
    /\ Len(content) = 1
    /\ content[1] = [k \in {Name, Age} |-> IF k = Name THEN StrV(<<"x">>) ELSE NullV]
    /\ result.value[1].value = [f \in FieldSet |-> IF f = Age THEN IntV(0) ELSE StrV(<<"x">>)]

\* ---------------------------------------------------------------- directory claims
JsonsLoadDone == pc = "done" /\ loader = "jsons" /\ kind = "dir"

\* The results of the files of fs that JsonLoader.load loads, in order.
LoadedJson(sch, c, fs) ==
    LET good == SelectSeq(fs, LAMBDA fp : JsonLoad(sch, fp, EntryAt(c, fp)).ok)
    IN [n \in 1..Len(good) |-> JsonLoad(sch, good[n], EntryAt(c, good[n])).value]

\* C16 (as stated): once the directory resolves, JsonsLoader.load always
\* returns a result keyed by the directory whose entries are exactly the
\* enumerated .json files that load, in enumeration order; a file that fails
\* for any reason (malformed JSON, schema violation, undecodable content) is
\* skipped and never aborts the load.
C16_AsStated ==
    JsonsLoadDone
    => /\ outcome = "returned"
       /\ result = [path |-> path,
                     value |-> LoadedJson(schema, content,
                                  SearchSpecificExtension(path, kind, content, DotJson))]

\* The directory is as it was when the loader listed it.
Undisturbed(c) == \A i \in 1..Len(c) : c[i].kind # "gone" /\ ~c[i].created
DirectoryLoadDone ==
    /\ pc = "done"
    /\ loader \in {"jsons", "texts"}
    /\ kind = "dir"
    /\ Undisturbed(content)

\* The extension a directory loader asks for, and the children that are
\* files with that extension.
OwnExtension(l) == IF l = "jsons" THEN DotJson ELSE DotTxt
Matching(l, c) ==
    {i \in 1..Len(c) : c[i].kind = "file" /\ Lower(c[i].suffix) = OwnExtension(l)}

\* The number of entries one file contributes: one, or none for a JSON file
\* that the lenient loader skips.
Contributes(l, sch, e) ==
    IF l = "jsons" /\ (JsonMalformed(e.text) \/ ~JsonValidate(sch, e.text).ok)
    THEN 0 ELSE 1

C18_AsStated ==
    (DirectoryLoadDone /\ outcome = "returned")
    => \A i \in 1..Len(content) :
          \A j \in 1..Len(content[i].sub) :
              (/\ Lower(content[i].sub[j].suffix) = OwnExtension(loader)
               /\ Contributes(loader, schema, content[i].sub[j]) = 1)
              => \E n \in 1..Len(result.value) :
                    result.value[n].path = GrandChildPath(path, i, j, content[i].sub[j])

SearchDone(l) == pc = "done" /\ loader = l /\ kind = "dir"

\* C19: search_file_paths_from_directory_path on a directory returns exactly
\* the regular files that are its immediate children: no file of a
\* subdirectory, no directory, and every child file once.
C19_ImmediateChildren ==
    SearchDone("search_file_paths")
    => /\ Len(files) = Cardinality({i \in 1..Len(content) : content[i].kind = "file"})
       /\ \A n \in 1..Len(files) :
             /\ files[n].parent = path
             /\ Len(files[n].name) = 1
             /\ content[files[n].name[1]].kind = "file"
       /\ \A i \in 1..Len(content) :
             content[i].kind = "file"
             => Cardinality({n \in 1..Len(files) :
                                files[n] = ChildPath(path, i, content[i])}) = 1

\* A search of a directory holding a file and a subdirectory with files in
\* it found the one file.
C19_Witness ==
    /\ SearchDone("search_file_paths")
    /\ Len(content) = 2
    /\ content[1].kind = "dir"
    /\ Len(content[1].sub) = 2
    /\ content[2].kind = "file"
    /\ files = <<ChildPath(path, 2, content[2])>>

\* An extension as the claim writes it: dotted, and without its dot.
Dotted(e) == IF e[1] = "." THEN e ELSE <<".">> \o e
Undotted(e) == IF e[1] = "." THEN Tail(e) ELSE e
SameExtension(e1, e2) == Lower(Undotted(e1)) = Lower(Undotted(e2))

\* What the search that ran returns for another list of extensions.
SearchResult(l, p, k, c, es) ==
    IF l = "search_extension" THEN SearchSpecificExtension(p, k, c, es[1])
    ELSE SearchSpecificExtensions(p, k, c, es)

\* C20: extension filtering is insensitive to case and to a missing leading
\* dot: a child file is in the result exactly when its lower-cased suffix
\* equals the lower-cased dotted form of the extension (of one of the
\* extensions), and writing an extension without its dot or in another case
\* gives the same list.
C20_ExtensionInsensitive ==
    (\/ SearchDone("search_extension")
     \/ SearchDone("search_extensions"))
    => /\ \A i \in 1..Len(content) :
             content[i].kind = "file"
             => ((\E n \in 1..Len(files) : files[n] = ChildPath(path, i, content[i]))
                 <=> \E m \in 1..Len(extensions) :
                        Lower(content[i].suffix) = Lower(Dotted(extensions[m])))
       /\ \A es \in ExtensionsOf(loader) :
             (/\ Len(es) = Len(extensions)
              /\ \A m \in 1..Len(es) : SameExtension(es[m], extensions[m]))
             => files = SearchResult(loader, path, kind, content, es)

\* A search for "Json" found the .json file and the .JSON file of a
\* directory that also holds a .txt file.
C20_Witness ==
    /\ SearchDone("search_extension")
    /\ extensions = << <<"J", "s", "o", "n">> >>
    /\ Len(content) = 3
    /\ content[1].suffix = DotJson
    /\ content[2].suffix = DotTxt
    /\ content[3].suffix = <<".", "J", "S", "O", "N">>
    /\ Len(files) = 2


\* C21: the PathSearcher listing never raises: for a path that does not
\* exist it returns the empty list, for a regular file the list of that one
\* path, before any extension filter.
C21_ListingNeverRaises ==
    (pc = "done" /\ loader \in Searches)
    => /\ outcome = "returned"
       /\ error = NoError
       /\ loader = "search_file_paths"
          => /\ kind = "missing" => files = <<>>
             /\ kind = "file" => /\ Len(files) = 1
                                  /\ files[1].parent = path
                                  /\ files[1].name = <<>>

\* The listing of a regular file has returned that one path.
C21_Witness ==
    /\ pc = "done"
    /\ loader = "search_file_paths"
    /\ kind = "file"
    /\ outcome = "returned"
    /\ files = <<SelfPath(path)>>


\* C26: in every collection a CSV, JSONL or Parquet load returns, each row
\* carries the collection's path, that path passed the exists-and-is-file
\* check of the same call, each row's value is the outcome of a successful
\* validation of one record of the file, in file order, and no record that
\* was validated and failed is behind a row: every record the call validated
\* was accepted.
C26_ReturnedRowsValid ==
    (pc = "done" /\ loader \in RowLoaders /\ outcome = "returned")
    => /\ ResolveFile(loader, path, kind) = NoError
       /\ IsFile(kind)
       /\ result.path = path
       /\ Len(result.value) = Len(validated)
       /\ \A i \in 1..Len(result.value) :
             /\ result.value[i].path = result.path
             /\ ValidatedUnit(loader, schema, content, content[validated[i]]).ok
             /\ result.value[i].value =
                    ValidatedUnit(loader, schema, content, content[validated[i]]).value
             /\ DOMAIN result.value[i].value = FieldSet
             /\ \A f \in FieldSet : result.value[i].value[f] # NullV
       /\ \A i \in 1..(Len(validated) - 1) : validated[i] < validated[i + 1]

\* A JSONL load returned two rows, from the first and the third line of a
\* file whose second line is blank.
C26_Witness ==
    /\ pc = "done"
    /\ loader = "jsonl"
    /\ outcome = "returned"
    /\ validated = <<1, 3>>
    /\ Len(result.value) = 2
    /\ result.value[1].path = path


\* The columns of a row that have both a header name and a cell.
PairedColumns(hs, row_data) ==
    1..(IF Len(row_data) < Len(hs) THEN Len(row_data) ELSE Len(hs))

\* The last of the paired columns that is named k.
LastColumnNamed(hs, row_data, k) ==
    CHOOSE i \in PairedColumns(hs, row_data) :
        /\ hs[i] = k
        /\ \A j \in PairedColumns(hs, row_data) : hs[j] = k => j <= i

\* C30: CsvLoader builds the field map of a data row by position against
\* the header: the keys are the header names of the columns the row has a
\* cell for (cells beyond the header are dropped, header columns beyond the
\* row are omitted), each key holds the text of its cell, the empty string
\* for an empty cell, and of two columns with one name the later one wins.
C30_FieldMapByPosition ==
    (loader = "csv" /\ pc \in {"rows", "done"} /\ pos >= 1)
    => \A n \in 2..pos :
          LET row_data == content[n]
              row_dict == CsvRowDict(headers, row_data)
          IN /\ headers = content[1]
             /\ DOMAIN row_dict = {headers[i] : i \in PairedColumns(headers, row_data)}
             /\ DOMAIN row_dict \subseteq {headers[i] : i \in 1..Len(headers)}
             /\ \A k \in DOMAIN row_dict :
                   row_dict[k] = StrV(row_data[LastColumnNamed(headers, row_data, k)])

\* A CSV load returned a record for the row x,7 under the header name,name:
\* the name is the later cell.
C30_Witness ==
    /\ pc = "done"
    /\ loader = "csv"
    /\ outcome = "returned"
    /\ content = << <<Name, Name>>, << <<"x">>, <<"7">> >> >>
    /\ result.value[1].value[Name] = StrV(<<"7">>)


\* The phases of a single-file load, in their order.
PhaseRank(p) ==
    CASE p = "idle" -> 0
      [] p \in {"check", "init"} -> 1
      [] p \in {"header", "open", "read", "document", "load"} -> 2
      [] p = "rows" -> 3
      [] OTHER -> 4

\* A step stays in its phase (the row loop), moves to a later one, or is the
\* start of the next call.
PhasesAdvance ==
    \/ PhaseRank(pc') >= PhaseRank(pc)
    \/ pc = "done" /\ pc' = "idle"

\* Exactly one outcome at the end; nothing opened when the path check
\* failed; no row validated before the header was read.
PhasesSound ==
    /\ pc = "done"
       => \/ outcome = "returned" /\ error = NoError
          \/ outcome = "raised" /\ error # NoError /\ result = NoResult
    /\ pc # "done" => outcome = "none"
    /\ (pc = "done" /\ ~IsFile(kind))
       => outcome = "raised" /\ handle = "none" /\ pos = 0 /\ validated = <<>>
    /\ PhaseRank(pc) \in {1, 2} => handle = "none" /\ validated = <<>> /\ rows = <<>>
    /\ IF loader = "csv" /\ validated # <<>>
       THEN pos >= 2 /\ headers = content[1]
       ELSE TRUE

\* C25: a single-file load is a linear state machine: it goes through path
\* check, header read (CSV), row loop and done in that order, re-enters no
\* earlier phase, opens no file when the path check fails, validates no row
\* before the header was read, and on a finite file always ends, in exactly
\* one of a returned collection and a raised error.
C25_LinearMachine ==
    /\ []PhasesSound
    /\ [][PhasesAdvance]_vars
    /\ (pc # "idle") ~> (pc = "done")

\* A CSV call that passed the path check, read the header, looped over its
\* one record and returned it.
C25_Witness ==
    /\ pc = "done"
    /\ loader = "csv"
    /\ outcome = "returned"
    /\ Len(content) = 2
    /\ Len(rows) = 1

\* The listed files whose load raises, in a directory c.
FailingFiles(l, c, fs) ==
    {i \in 1..Len(fs) : ~FileLoad(l, fs[i], EntryAt(c, fs[i])).ok}
FirstOf(S) == CHOOSE i \in S : \A j \in S : i <= j
FilesLoadDone == pc = "done" /\ loader \in FilesLoaders /\ kind = "dir"

\* C27: TextFilesLoader.load and ImageFilesLoader.load aggregate strictly:
\* when the load of a listed file raises, the directory load raises that
\* very exception, returns no result (the files loaded before are dropped)
\* and reads no file after the failing one; it returns only when every
\* listed file loaded.
C27_StrictAggregation ==
    FilesLoadDone
    => LET bad == FailingFiles(loader, content, files)
       IN IF bad = {}
          THEN /\ outcome = "returned"
               /\ Len(result.value) = Len(files)
          ELSE /\ outcome = "raised"
               /\ error = FileLoad(loader, files[FirstOf(bad)],
                                   EntryAt(content, files[FirstOf(bad)])).error
               /\ result = NoResult
               /\ pos = FirstOf(bad)

\* TextFilesLoader.load raised on the undecodable second of three .txt
\* files, after loading the first and without reading the third.
C27_Witness ==
    /\ FilesLoadDone
    /\ loader = "texts"
    /\ Len(files) = 3
    /\ FailingFiles(loader, content, files) = {2}
    /\ outcome = "raised"
    /\ error.type = "UnicodeDecodeError"
    /\ Len(rows) = 1
    /\ pos = 2

\* The steps of a TextFilesLoader or ImageFilesLoader after its
\* construction leave the list of files as the constructor made it.
ListingKept ==
    (loader \in FilesLoaders /\ pc \in {"files", "done"} /\ pc' # "idle")
    => files' = files
\* The constructor lists the directory as it is at that moment.
ListedAtConstruction ==
    (loader \in FilesLoaders /\ pc = "init" /\ pc' = "files")
    => files' = Listing(loader, path, kind, content, extensions)
\* load on a removed file ends in an error that is no LoadingError.
RemovedFileRaises ==
    (loader \in {"text", "image"} /\ pc = "load" /\ ~Exists(kind))
    => /\ pc' = "done"
       /\ outcome' = "raised"
       /\ error'.type = "FileNotFoundError"
       /\ ~IsLoadingErrorType(error'.type)
       /\ result' = NoResult
\* A load visits the listed paths in their order; what it returns has one
\* entry per listed path and none for a file that was created later; it
\* raises when a listed file is gone.
ListedFilesVisited ==
    (loader \in FilesLoaders /\ pc \in {"files", "done"})
    => /\ Len(rows) <= Len(files)
       /\ \A n \in 1..Len(rows) : rows[n].path = files[n]
       /\ outcome = "returned"
          => /\ Len(result.value) = Len(files)
             /\ \A n \in 1..Len(files) :
                   /\ result.value[n].path = files[n]
                   /\ ~EntryAt(content, files[n]).created
       /\ (pc = "done" /\ \E n \in 1..Len(files) : EntryAt(content, files[n]).kind = "gone")
          => outcome = "raised"

Exported == pc = "exported"
Cell(i, c) == table.rows[i][c]

\* C22: the table to_polars / to_pandas returns has one row per row of the
\* collection, in the collection's order (row i holds the field values of
\* loaded row i); for a collection without rows it has no row and no column,
\* with and without include_path_as_column, and the export still returns a
\* table.
C22_OneRowPerLoadedRow ==
    Exported
    => /\ table.lib \in {"polars", "pandas"}
       /\ Len(table.rows) = Len(collection.value)
       /\ \A i \in 1..Len(collection.value) :
             \A c \in Range(collection.fields) :
                (c # PathField \/ ~include_path_as_column)
                => Cell(i, c) = collection.value[i].value[c]
       /\ collection.value = <<>> => table.columns = <<>> /\ table.rows = <<>>

\* An empty CsvLoadResult was exported with include_path_as_column=True.
C22_Witness ==
    /\ Exported
    /\ collection.class = "CsvLoadResult"
    /\ collection.value = <<>>
    /\ include_path_as_column
    /\ table.lib = "polars"
    /\ table.columns = <<>>

\* C23 (as stated): with include_path_as_column=True the path cell of table
\* row i is the text of the path of loaded row i, for every exportable
\* class and also when the rows carry different paths.
C23_AsStated ==
    (Exported /\ include_path_as_column)
    => \A i \in 1..Len(collection.value) :
          Cell(i, PathField) = PathStr(collection.value[i].path)

\* The table exported with and without the path column.
WithPath == ToFrame(collection, TRUE)
WithoutPath == ToFrame(collection, FALSE)

\* C29: for a model that declares a field named path, the export of a
\* non-empty collection with include_path_as_column=True has as many columns
\* as the export without it, and its path column holds texts of source paths
\* where the records' own path values were; for a model without such a field
\* it has exactly one more column, path; in both cases every other column is
\* the same in the two exports.
C29_PathColumnCollision ==
    (Exported /\ include_path_as_column /\ collection.value # <<>>)
    => /\ table = [lib |-> table.lib] @@ WithPath
       /\ IF PathField \in Range(collection.fields)
          THEN /\ Len(WithPath.columns) = Len(WithoutPath.columns)
               /\ WithPath.columns = WithoutPath.columns
               /\ \A i \in 1..Len(collection.value) :
                     /\ Cell(i, PathField) \in {PathStr(p) : p \in ExportPaths}
                     /\ Cell(i, PathField) # collection.value[i].value[PathField]
          ELSE /\ Len(WithPath.columns) = Len(WithoutPath.columns) + 1
               /\ WithPath.columns = Append(WithoutPath.columns, PathField)
       /\ \A i \in 1..Len(collection.value) :
             \A c \in Range(WithoutPath.columns) \ {PathField} :
                Cell(i, c) = WithoutPath.rows[i][c]

\* A JsonsLoadResult of a model with the fields path and name was exported
\* with the path column: two columns, the first one holding the file path.
C29_Witness ==
    /\ Exported
    /\ include_path_as_column
    /\ collection.class = "JsonsLoadResult"
    /\ collection.fields = <<PathField, Name>>
    /\ Len(collection.value) = 2
    /\ table.columns = <<PathField, Name>>
    /\ Cell(1, PathField) = PathStr(collection.value[1].path)

\* What load gives when the call of frame f runs alone, from its first
\* statement to its end, on a loader with that model.
RECURSIVE RunAlone(_, _, _)
RunAlone(f, model, list) ==
    IF f.pc = "done" THEN f
    ELSE RunAlone(FrameStep(f, model, list).frame, model, FrameStep(f, model, list).list)
LoadAlone(f, model) ==
    RunAlone(NewFrame(f.self, f.loader, f.path, f.kind, f.content), model, <<>>)
OutcomeOf(f) == [outcome |-> f.outcome, result |-> f.result, error |-> f.error]

\* C24: load calls are independent and reentrant: when the steps of two
\* calls on different files are interleaved in any order, on two loader
\* objects or on one, each call returns or raises what it would when run
\* alone.
C24_Reentrant ==
    \A i \in DOMAIN frames :
        frames[i].pc = "done"
        => OutcomeOf(frames[i]) = OutcomeOf(LoadAlone(frames[i], selves[frames[i].self].model))

\* Two calls of load on one CsvLoader: the second has returned its one row
\* while the first is still in its loop, with one row collected.
C24_Witness ==
    /\ frames # <<>>
    /\ frames[1].self = frames[2].self
    /\ frames[1].loader = "csv"
    /\ frames[1].pc = "rows"
    /\ frames[1].pos = 2
    /\ Len(lists[1]) = 1
    /\ frames[2].pc = "done"
    /\ frames[2].outcome = "returned"
    /\ Len(frames[2].result.value) = 1

====
